---- MODULE Spec2Model ----
(***************************************************************************)
(* A model of the EXIF / XMP metadata decoder of leok7v/photos             *)
(* (src/tiny_exif.c, src/tiny_exif.h) and of the way src/photos.c uses it. *)
(*                                                                         *)
(* The Record (exif_info_t) is the variable ei.  The Segment Scanner       *)
(* (exif_parse_from_stream) is a small-step machine over pc; the stream is *)
(* the in-memory stream of exif_parse_from_memory, whose bytes are drawn   *)
(* when they are first read (the stream is forward-only, so this is the    *)
(* same as choosing the whole buffer up front).  The decoders of one APP1  *)
(* payload are operators that thread a decoder state through the code's    *)
(* statements in order.                                                    *)
(*                                                                         *)
(* Numbers: unsigned 32-bit arithmetic is taken modulo 2^32 where the code *)
(* computes in uint32_t.  A double is an integer count of 1/3600 units     *)
(* (DblUnit), DBL_MAX is a reserved value.                                 *)
(***************************************************************************)
EXTENDS Integers, Sequences, FiniteSets, TLC

(***************************************************************************)
(* Bounds of the model.                                                    *)
(***************************************************************************)
MaxCalls == 2
MaxSegments == 2
ArenaSize == 32
MaxBytes == 40

(***************************************************************************)
(* Program constants.                                                      *)
(***************************************************************************)
EXIF_PARSE_SUCCESS == 0
EXIF_PARSE_INVALID_JPEG == 1
EXIF_PARSE_UNKNOWN_BYTEALIGN == 2
EXIF_PARSE_ABSENT_DATA == 3
EXIF_PARSE_CORRUPT_DATA == 4

EXIF_FIELD_NA == 0
EXIF_FIELD_EXIF == 1
EXIF_FIELD_XMP == 2
EXIF_FIELD_ALL == 3

JM_START == 255
JM_SOF0 == 192
JM_DHT == 196
JM_RST0 == 208
JM_RST7 == 215
JM_SOI == 216
JM_EOI == 217
JM_SOS == 218
JM_DQT == 219
JM_DRI == 221
JM_APP0 == 224
JM_APP1 == 225
JM_APP13 == 237
JM_APP14 == 238

DBL_MAX == 1000000000
DblHuge == 900000000
DblUnit == 3600
StackDepth == 64

TAG_APERTURE == 37378
TAG_ARTIST == 315
TAG_BITS_PER_SAMPLE == 258
TAG_BRIGHTNESS_VALUE == 37379
TAG_COLOR_SPACE == 40961
TAG_COMPONENT_CONFIG == 37121
TAG_COMP_IMAGE_HEIGHT == 40963
TAG_COMP_IMAGE_WIDTH == 40962
TAG_COPYRIGHT == 33432
TAG_DATETIME == 306
TAG_DATE_TIME_DIGITIZED == 36868
TAG_DATE_TIME_ORIGINAL == 36867
TAG_DIGITAL_ZOOM_RATIO == 41988
TAG_EXIFVERSION == 36864
TAG_EXIF_IFD_POINTER == 34665
TAG_EXPOSURETIME == 33434
TAG_EXPOSURE_BIAS_VALUE == 37380
TAG_EXPOSURE_INDEX == 41493
TAG_EXPOSURE_MODE == 41986
TAG_EXPOSURE_PROGRAM == 34850
TAG_FLASH == 37385
TAG_FLASH_PIX_VERSION == 40960
TAG_FNUMBER == 33437
TAG_FOCALPLANE_RESOLUTION_UNIT == 41488
TAG_FOCALPLANE_X_RES == 41486
TAG_FOCALPLANE_Y_RES == 41487
TAG_FOCAL_LENGTH == 37386
TAG_FOCAL_LENGTH_IN_35_MM_FILM == 41989
TAG_GPS_IFD_POINTER == 34853
TAG_IMAGE_DESCRIPTION == 270
TAG_ISOSPEED == 34855
TAG_LIGHT_SOURCE == 37384
TAG_MAKE == 271
TAG_MAKER_NOTE == 37500
TAG_MAX_APERTURE == 37381
TAG_METRIC_MODULE == 37383
TAG_MODEL == 272
TAG_OFFSET_TIME_ORIGINAL == 36881
TAG_ORIENTATION == 274
TAG_RESOLUTION_UNIT == 296
TAG_SCENE_CAPTURE_TYPE == 41990
TAG_SCENE_TYPE == 41729
TAG_SENSING_METHOD == 41495
TAG_SHUTTERSPEED == 37377
TAG_SOFTWARE == 305
TAG_SUBJECT_AREA == 37396
TAG_SUBJECT_DISTANCE == 37382
TAG_SUB_SEC_TIME_ORIGINAL == 37521
TAG_USERCOMMENT == 37510
TAG_WHITE_BALANCE == 41987
TAG_X_RESOLUTION == 282
TAG_YCC_POSITIONING == 531
TAG_Y_RESOLUTION == 283

(***************************************************************************)
(* Arithmetic helpers.                                                     *)
(***************************************************************************)
\* A uint32_t value u is held as the integer r, -2^31 <= r < 2^31, with
\* r = u (mod 2^32): the values below 2^31 are themselves, the others are
\* u - 2^32.  Add32 is uint32_t addition, Ult and Ule are the unsigned
\* comparisons < and <=.
Add32(a, b) ==
  LET lo == (a % 65536) + (b % 65536)
      hi == (a \div 65536) + (b \div 65536) + (lo \div 65536)
  IN  (((hi + 32768) % 65536) - 32768) * 65536 + (lo % 65536)

Ult(a, b) == IF (a < 0) = (b < 0) THEN a < b ELSE b < 0

Ule(a, b) == a = b \/ Ult(a, b)

\* An offset no buffer reaches.
FarOff == 1073741824

\* ptr + u + k: the offset from ptr of a pointer advanced by the uint32_t
\* value u and then by k (pointer arithmetic does not wrap at 2^32)
PtrAdd(u, k) == IF u < 0 \/ u >= FarOff THEN FarOff ELSE u + k

Min(a, b) == IF a < b THEN a ELSE b

(***************************************************************************)
(* Variants of operators defined below, used to show that the properties   *)
(* at the end of the module depend on them: apps1 |= f dropped, the test   *)
(* apps1 == EXIF_FIELD_ALL never true, apps1 ignored in the result, and    *)
(* the directory-size check of exif_parse_from_segment never true.         *)
(***************************************************************************)
OrFieldDropped(a, f) == a

AllFoundNever(a) == FALSE

ResultOrRet(a, ret) == ret

IfdOverrunNever(offs, num_entries, bytes) == FALSE
AfterNone(l, n) == l
ParserInitAt(s, offs) == [s EXCEPT !.offs = offs]
IfdOverrunNoLink(offs, num_entries, bytes) ==
  IF offs >= 0 /\ offs < 1000000 /\ bytes >= 0
    THEN bytes < offs + 2 + 12 * num_entries
    ELSE TRUE
StrEquAny(s0, s1) == TRUE
AnyMagic(v) == TRUE
CoordDegrees(c) == c.degrees

(***************************************************************************)
(* Pointers.  A string field of the Record is a C pointer:                 *)
(*   null   - the all-zero pointer of a zero-initialised Record;           *)
(*   lit    - a string literal of the program ("" or "\x00\x00");          *)
(*   arena  - ei->strings + off, assigned during call number gen;          *)
(*   stack  - the address of a local buffer of a function that returned.   *)
(***************************************************************************)
NullPtr == [k |-> "null", off |-> 0, gen |-> 0]
LitPtr == [k |-> "lit", off |-> 0, gen |-> 0]
StackPtr == [k |-> "stack", off |-> 0, gen |-> 0]
ArenaPtr(off, gen) == [k |-> "arena", off |-> off, gen |-> gen]

(***************************************************************************)
(* The Record, exif_info_t.  Fields are addressed by their C path.         *)
(***************************************************************************)
StrFields ==
  { "ImageDescription", "Artist", "UserComment", "Make", "Model",
    "SerialNumber", "Software", "DateTime", "DateTimeOriginal",
    "DateTimeDigitized", "SubSecTimeOriginal", "Copyright",
    "OffsetTimeOriginal", "LensInfo.Make", "LensInfo.Model",
    "GeoLocation.GPSMapDatum", "GeoLocation.GPSTimeStamp",
    "GeoLocation.GPSDateStamp" }

NumFields ==
  { "ExifVersion", "ImageWidth", "ImageHeight", "RelatedImageWidth",
    "RelatedImageHeight", "Orientation", "XResolution", "YResolution",
    "ResolutionUnit", "BitsPerSample", "FlashPixVersion", "ExposureTime",
    "FNumber", "ExposureProgram", "ColorSpace", "SceneType", "ExposureMode",
    "WhiteBalance", "CaptureType", "ComponentConfig", "YCCPositioning",
    "SensingMethod", "ISOSpeedRatings", "ShutterSpeedValue", "MaxAperture",
    "ApertureValue", "BrightnessValue", "ExposureBiasValue",
    "SubjectDistance", "FocalLength", "Flash", "MeteringMode", "LightSource",
    "ProjectionType", "SubjectAreas",
    "SubjectArea[0]", "SubjectArea[1]", "SubjectArea[2]", "SubjectArea[3]",
    "Calibration.FocalLength", "Calibration.OpticalCenterX",
    "Calibration.OpticalCenterY",
    "LensInfo.FStopMin", "LensInfo.FStopMax", "LensInfo.FocalLengthMin",
    "LensInfo.FocalLengthMax", "LensInfo.DigitalZoomRatio",
    "LensInfo.FocalLengthIn35mm", "LensInfo.FocalPlaneXResolution",
    "LensInfo.FocalPlaneYResolution", "LensInfo.FocalPlaneResolutionUnit",
    "GeoLocation.Latitude", "GeoLocation.Longitude", "GeoLocation.Altitude",
    "GeoLocation.AltitudeRef", "GeoLocation.RelativeAltitude",
    "GeoLocation.RollDegree", "GeoLocation.PitchDegree",
    "GeoLocation.YawDegree", "GeoLocation.SpeedX", "GeoLocation.SpeedY",
    "GeoLocation.SpeedZ", "GeoLocation.AccuracyXY", "GeoLocation.AccuracyZ",
    "GeoLocation.GPSDOP", "GeoLocation.GPSDifferential",
    "GeoLocation.LatComponents.degrees", "GeoLocation.LatComponents.minutes",
    "GeoLocation.LatComponents.seconds",
    "GeoLocation.LatComponents.direction",
    "GeoLocation.LonComponents.degrees", "GeoLocation.LonComponents.minutes",
    "GeoLocation.LonComponents.seconds",
    "GeoLocation.LonComponents.direction",
    "GPano.PosePitchDegrees", "GPano.PoseRollDegrees",
    "MicroVideo.HasMicroVideo", "MicroVideo.MicroVideoVersion",
    "MicroVideo.MicroVideoOffset" }

\* The string fields exif_clear assigns "" to.
ClearedStrFields ==
  { "ImageDescription", "Make", "Model", "SerialNumber", "Software",
    "DateTime", "DateTimeOriginal", "DateTimeDigitized",
    "SubSecTimeOriginal", "Copyright", "LensInfo.Make", "LensInfo.Model",
    "GeoLocation.GPSMapDatum", "GeoLocation.GPSTimeStamp",
    "GeoLocation.GPSDateStamp" }

\* The numeric fields exif_clear assigns DBL_MAX to.
ClearedMaxFields ==
  { "GeoLocation.Latitude", "GeoLocation.Longitude", "GeoLocation.Altitude",
    "GeoLocation.RelativeAltitude", "GeoLocation.RollDegree",
    "GeoLocation.PitchDegree", "GeoLocation.YawDegree", "GeoLocation.SpeedX",
    "GeoLocation.SpeedY", "GeoLocation.SpeedZ",
    "GeoLocation.LatComponents.degrees", "GeoLocation.LonComponents.degrees",
    "GPano.PosePitchDegrees", "GPano.PoseRollDegrees" }

\* The numeric fields exif_clear assigns 0 to.
ClearedZeroFields ==
  { "ImageWidth", "ImageHeight", "RelatedImageWidth", "RelatedImageHeight",
    "Orientation", "XResolution", "YResolution", "ResolutionUnit",
    "BitsPerSample", "ExposureTime", "FNumber", "ExposureProgram",
    "ISOSpeedRatings", "ShutterSpeedValue", "ApertureValue",
    "BrightnessValue", "ExposureBiasValue", "SubjectDistance", "FocalLength",
    "Flash", "MeteringMode", "LightSource", "ProjectionType", "SubjectAreas",
    "SubjectArea[0]", "SubjectArea[1]", "SubjectArea[2]", "SubjectArea[3]",
    "Calibration.FocalLength", "Calibration.OpticalCenterX",
    "Calibration.OpticalCenterY",
    "LensInfo.FocalLengthMax", "LensInfo.FocalLengthMin",
    "LensInfo.FStopMax", "LensInfo.FStopMin", "LensInfo.DigitalZoomRatio",
    "LensInfo.FocalLengthIn35mm", "LensInfo.FocalPlaneXResolution",
    "LensInfo.FocalPlaneYResolution", "LensInfo.FocalPlaneResolutionUnit",
    "GeoLocation.AltitudeRef", "GeoLocation.AccuracyXY",
    "GeoLocation.AccuracyZ", "GeoLocation.GPSDOP",
    "GeoLocation.GPSDifferential",
    "GeoLocation.LatComponents.minutes", "GeoLocation.LatComponents.seconds",
    "GeoLocation.LatComponents.direction",
    "GeoLocation.LonComponents.minutes", "GeoLocation.LonComponents.seconds",
    "GeoLocation.LonComponents.direction",
    "MicroVideo.HasMicroVideo", "MicroVideo.MicroVideoVersion",
    "MicroVideo.MicroVideoOffset" }

(***************************************************************************)
(* The rule table of the XMP extractor (parse_xmp_xml): tag name n, target *)
(* slot v (a field of ei->xmp), up distance, append flag, required parent  *)
(* p ("" where the C initialiser leaves it null).                          *)
(***************************************************************************)
npv ==
  <<
    [n |-> "Iptc4xmpCore:CiAdrCity", v |-> "Iptc4xmpCore.CreatorContactInfo.CiAdrCity", up |-> 0, append |-> FALSE, p |-> ""],
    [n |-> "Iptc4xmpCore:CiAdrCtry", v |-> "Iptc4xmpCore.CreatorContactInfo.CiAdrCtry", up |-> 0, append |-> FALSE, p |-> ""],
    [n |-> "Iptc4xmpCore:CiAdrExtadr", v |-> "Iptc4xmpCore.CreatorContactInfo.CiAdrExtadr", up |-> 0, append |-> FALSE, p |-> ""],
    [n |-> "Iptc4xmpCore:CiAdrPcode", v |-> "Iptc4xmpCore.CreatorContactInfo.CiAdrPcode", up |-> 0, append |-> FALSE, p |-> ""],
    [n |-> "Iptc4xmpCore:CiAdrRegion", v |-> "Iptc4xmpCore.CreatorContactInfo.CiAdrRegion", up |-> 0, append |-> FALSE, p |-> ""],
    [n |-> "Iptc4xmpCore:CiEmailWork", v |-> "Iptc4xmpCore.CreatorContactInfo.CiEmailWork", up |-> 0, append |-> FALSE, p |-> ""],
    [n |-> "Iptc4xmpCore:CiTelWork", v |-> "Iptc4xmpCore.CreatorContactInfo.CiTelWork", up |-> 0, append |-> FALSE, p |-> ""],
    [n |-> "Iptc4xmpCore:CiUrlWork", v |-> "Iptc4xmpCore.CreatorContactInfo.CiUrlWork", up |-> 0, append |-> FALSE, p |-> ""],
    [n |-> "Iptc4xmpCore:IntellectualGenre", v |-> "Iptc4xmpCore.IntellectualGenre", up |-> 0, append |-> FALSE, p |-> ""],
    [n |-> "Iptc4xmpCore:Location", v |-> "Iptc4xmpCore.Location", up |-> 0, append |-> FALSE, p |-> ""],
    [n |-> "Iptc4xmpCore:Scene", v |-> "Iptc4xmpCore.Scene", up |-> 0, append |-> FALSE, p |-> ""],
    [n |-> "Iptc4xmpCore:SubjectCode", v |-> "Iptc4xmpCore.SubjectCode", up |-> 0, append |-> FALSE, p |-> ""],
    [n |-> "Iptc4xmpExt:AOCopyrightNotice", v |-> "Iptc4xmpExt.ArtworkOrObject.AOCopyrightNotice", up |-> 0, append |-> FALSE, p |-> "Iptc4xmpExt:ArtworkOrObject"],
    [n |-> "Iptc4xmpExt:AOCreator", v |-> "Iptc4xmpExt.ArtworkOrObject.AOCreator", up |-> 0, append |-> FALSE, p |-> "Iptc4xmpExt:ArtworkOrObject"],
    [n |-> "Iptc4xmpExt:AOCircaDateCreated", v |-> "Iptc4xmpExt.ArtworkOrObject.AOCircaDateCreated", up |-> 0, append |-> FALSE, p |-> ""],
    [n |-> "Iptc4xmpExt:AOContentDescription", v |-> "Iptc4xmpExt.ArtworkOrObject.AOContentDescription", up |-> 2, append |-> FALSE, p |-> ""],
    [n |-> "Iptc4xmpExt:AOContributionDescription", v |-> "Iptc4xmpExt.ArtworkOrObject.AOContributionDescription", up |-> 2, append |-> FALSE, p |-> ""],
    [n |-> "Iptc4xmpExt:AOCreatorId", v |-> "Iptc4xmpExt.ArtworkOrObject.AOCreatorId", up |-> 2, append |-> FALSE, p |-> ""],
    [n |-> "Iptc4xmpExt:AOCurrentCopyrightOwnerId", v |-> "Iptc4xmpExt.ArtworkOrObject.AOCurrentCopyrightOwnerId", up |-> 0, append |-> FALSE, p |-> ""],
    [n |-> "Iptc4xmpExt:AOCurrentCopyrightOwnerName", v |-> "Iptc4xmpExt.ArtworkOrObject.AOCurrentCopyrightOwnerName", up |-> 0, append |-> FALSE, p |-> ""],
    [n |-> "Iptc4xmpExt:AOCurrentLicensorId", v |-> "Iptc4xmpExt.ArtworkOrObject.AOCurrentLicensorId", up |-> 0, append |-> FALSE, p |-> ""],
    [n |-> "Iptc4xmpExt:AOCurrentLicensorName", v |-> "Iptc4xmpExt.ArtworkOrObject.AOCurrentLicensorName", up |-> 0, append |-> FALSE, p |-> ""],
    [n |-> "Iptc4xmpExt:AOPhysicalDescription", v |-> "Iptc4xmpExt.ArtworkOrObject.AOPhysicalDescription", up |-> 2, append |-> FALSE, p |-> ""],
    [n |-> "Iptc4xmpExt:AOSource", v |-> "Iptc4xmpExt.ArtworkOrObject.AOSource", up |-> 0, append |-> FALSE, p |-> ""],
    [n |-> "Iptc4xmpExt:AOSourceInvNo", v |-> "Iptc4xmpExt.ArtworkOrObject.AOSourceInvNo", up |-> 0, append |-> FALSE, p |-> ""],
    [n |-> "Iptc4xmpExt:AOSourceInvURL", v |-> "Iptc4xmpExt.ArtworkOrObject.AOSourceInvURL", up |-> 0, append |-> FALSE, p |-> ""],
    [n |-> "Iptc4xmpExt:AOStylePeriod", v |-> "Iptc4xmpExt.ArtworkOrObject.AOStylePeriod", up |-> 2, append |-> FALSE, p |-> ""],
    [n |-> "Iptc4xmpExt:AOTitle", v |-> "Iptc4xmpExt.ArtworkOrObject.AOTitle", up |-> 2, append |-> FALSE, p |-> ""],
    [n |-> "Iptc4xmpExt:DigImageGUID", v |-> "Iptc4xmpExt.DigImageGUID", up |-> 0, append |-> FALSE, p |-> ""],
    [n |-> "Iptc4xmpExt:EmbdEncRightsExpr", v |-> "Iptc4xmpExt.EmbdEncRightsExpr", up |-> 2, append |-> FALSE, p |-> ""],
    [n |-> "Iptc4xmpExt:DigitalSourceType", v |-> "Iptc4xmpExt.DigitalSourceType", up |-> 0, append |-> FALSE, p |-> ""],
    [n |-> "Iptc4xmpExt:Event", v |-> "Iptc4xmpExt.Event", up |-> 2, append |-> FALSE, p |-> ""],
    [n |-> "Iptc4xmpExt:EventId", v |-> "Iptc4xmpExt.EventId", up |-> 2, append |-> FALSE, p |-> ""],
    [n |-> "Iptc4xmpExt:LinkedRightsExpr", v |-> "Iptc4xmpExt.LinkedEncRightsExpr.LinkedRightsExpr", up |-> 0, append |-> FALSE, p |-> "Iptc4xmpExt:LinkedEncRightsExpr"],
    [n |-> "Iptc4xmpExt:RightsExprEncType", v |-> "Iptc4xmpExt.LinkedEncRightsExpr.RightsExprEncType", up |-> 0, append |-> FALSE, p |-> "Iptc4xmpExt:LinkedEncRightsExpr"],
    [n |-> "Iptc4xmpExt:RightsExprLangId", v |-> "Iptc4xmpExt.LinkedEncRightsExpr.RightsExprLangId", up |-> 0, append |-> FALSE, p |-> "Iptc4xmpExt:LinkedEncRightsExpr"],
    [n |-> "Iptc4xmpExt:City", v |-> "Iptc4xmpExt.LocationCreated.City", up |-> 0, append |-> FALSE, p |-> "Iptc4xmpExt:LocationCreated"],
    [n |-> "Iptc4xmpExt:CountryCode", v |-> "Iptc4xmpExt.LocationCreated.CountryCode", up |-> 0, append |-> FALSE, p |-> "Iptc4xmpExt:LocationCreated"],
    [n |-> "Iptc4xmpExt:CountryName", v |-> "Iptc4xmpExt.LocationCreated.CountryName", up |-> 0, append |-> FALSE, p |-> "Iptc4xmpExt:LocationCreated"],
    [n |-> "Iptc4xmpExt:ProvinceState", v |-> "Iptc4xmpExt.LocationCreated.ProvinceState", up |-> 0, append |-> FALSE, p |-> "Iptc4xmpExt:LocationCreated"],
    [n |-> "Iptc4xmpExt:Sublocation", v |-> "Iptc4xmpExt.LocationCreated.Sublocation", up |-> 0, append |-> FALSE, p |-> "Iptc4xmpExt:LocationCreated"],
    [n |-> "Iptc4xmpExt:WorldRegion", v |-> "Iptc4xmpExt.LocationCreated.WorldRegion", up |-> 0, append |-> FALSE, p |-> "Iptc4xmpExt:LocationCreated"],
    [n |-> "Iptc4xmpExt:City", v |-> "Iptc4xmpExt.LocationShown.City", up |-> 0, append |-> FALSE, p |-> "Iptc4xmpExt:LocationShown"],
    [n |-> "Iptc4xmpExt:CountryCode", v |-> "Iptc4xmpExt.LocationShown.CountryCode", up |-> 0, append |-> FALSE, p |-> "Iptc4xmpExt:LocationShown"],
    [n |-> "Iptc4xmpExt:CountryName", v |-> "Iptc4xmpExt.LocationShown.CountryName", up |-> 0, append |-> FALSE, p |-> "Iptc4xmpExt:LocationShown"],
    [n |-> "Iptc4xmpExt:ProvinceState", v |-> "Iptc4xmpExt.LocationShown.ProvinceState", up |-> 0, append |-> FALSE, p |-> "Iptc4xmpExt:LocationShown"],
    [n |-> "Iptc4xmpExt:Sublocation", v |-> "Iptc4xmpExt.LocationShown.Sublocation", up |-> 0, append |-> FALSE, p |-> "Iptc4xmpExt:LocationShown"],
    [n |-> "Iptc4xmpExt:WorldRegion", v |-> "Iptc4xmpExt.LocationShown.WorldRegion", up |-> 0, append |-> FALSE, p |-> "Iptc4xmpExt:LocationShown"],
    [n |-> "Iptc4xmpExt:MaxAvailHeight", v |-> "Iptc4xmpExt.MaxAvailHeight", up |-> 0, append |-> FALSE, p |-> ""],
    [n |-> "Iptc4xmpExt:MaxAvailWidth", v |-> "Iptc4xmpExt.MaxAvailWidth", up |-> 0, append |-> FALSE, p |-> ""],
    [n |-> "Iptc4xmpExt:ModelAge", v |-> "Iptc4xmpExt.ModelAge", up |-> 0, append |-> FALSE, p |-> ""],
    [n |-> "Iptc4xmpExt:PersonCharacteristic", v |-> "Iptc4xmpExt.PersonInImageWDetails.PersonCharacteristic", up |-> 7, append |-> TRUE, p |-> "Iptc4xmpExt:PersonInImageWDetails"],
    [n |-> "Iptc4xmpExt:PersonDescription", v |-> "Iptc4xmpExt.PersonInImageWDetails.PersonDescription", up |-> 2, append |-> TRUE, p |-> "Iptc4xmpExt:PersonInImageWDetails"],
    [n |-> "Iptc4xmpExt:PersonId", v |-> "Iptc4xmpExt.PersonInImageWDetails.PersonId", up |-> 2, append |-> TRUE, p |-> "Iptc4xmpExt:PersonInImageWDetails"],
    [n |-> "Iptc4xmpExt:PersonName", v |-> "Iptc4xmpExt.PersonInImageWDetails.PersonName", up |-> 2, append |-> TRUE, p |-> "Iptc4xmpExt:PersonInImageWDetails"],
    [n |-> "Iptc4xmpExt:ProductDescription", v |-> "Iptc4xmpExt.ProductInImage.ProductDescription", up |-> 2, append |-> TRUE, p |-> "Iptc4xmpExt:ProductInImage"],
    [n |-> "Iptc4xmpExt:ProductGTIN", v |-> "Iptc4xmpExt.ProductInImage.ProductGTIN", up |-> 0, append |-> FALSE, p |-> "Iptc4xmpExt:ProductInImage"],
    [n |-> "Iptc4xmpExt:ProductId", v |-> "Iptc4xmpExt.ProductInImage.ProductId", up |-> 0, append |-> FALSE, p |-> "Iptc4xmpExt:ProductInImage"],
    [n |-> "Iptc4xmpExt:ProductName", v |-> "Iptc4xmpExt.ProductInImage.ProductName", up |-> 2, append |-> TRUE, p |-> "Iptc4xmpExt:ProductInImage"],
    [n |-> "Iptc4xmpExt:OrganisationInImageCode", v |-> "Iptc4xmpExt.OrganisationInImageCode", up |-> 2, append |-> FALSE, p |-> ""],
    [n |-> "Iptc4xmpExt:OrganisationInImageName", v |-> "Iptc4xmpExt.OrganisationInImageName", up |-> 2, append |-> FALSE, p |-> ""],
    [n |-> "Iptc4xmpExt:PersonInImage", v |-> "Iptc4xmpExt.PersonInImage", up |-> 2, append |-> FALSE, p |-> ""],
    [n |-> "Iptc4xmpExt:PersonCharacteristic", v |-> "Iptc4xmpExt.PersonCharacteristic", up |-> 2, append |-> FALSE, p |-> ""],
    [n |-> "Iptc4xmpExt:PersonDescription", v |-> "Iptc4xmpExt.PersonDescription", up |-> 2, append |-> FALSE, p |-> ""],
    [n |-> "Iptc4xmpExt:RegItemId", v |-> "Iptc4xmpExt.RegistryId.RegItemId", up |-> 0, append |-> FALSE, p |-> ""],
    [n |-> "Iptc4xmpExt:RegOrgId", v |-> "Iptc4xmpExt.RegistryId.RegOrgId", up |-> 0, append |-> FALSE, p |-> ""],
    [n |-> "Iptc4xmpExt:CvId", v |-> "Iptc4xmpExt.AboutCvTerm.CvId", up |-> 0, append |-> FALSE, p |-> "Iptc4xmpExt:AboutCvTerm"],
    [n |-> "Iptc4xmpExt:CvTermId", v |-> "Iptc4xmpExt.AboutCvTerm.CvTermId", up |-> 0, append |-> FALSE, p |-> "Iptc4xmpExt:AboutCvTerm"],
    [n |-> "Iptc4xmpExt:CvTermName", v |-> "Iptc4xmpExt.AboutCvTerm.CvTermName", up |-> 2, append |-> TRUE, p |-> "Iptc4xmpExt:AboutCvTerm"],
    [n |-> "Iptc4xmpExt:CvTermRefinedAbout", v |-> "Iptc4xmpExt.AboutCvTerm.CvTermRefinedAbout", up |-> 0, append |-> FALSE, p |-> "Iptc4xmpExt:AboutCvTerm"],
    [n |-> "dc:creator", v |-> "dc.creator", up |-> 2, append |-> TRUE, p |-> ""],
    [n |-> "dc:date", v |-> "dc.date", up |-> 2, append |-> TRUE, p |-> ""],
    [n |-> "dc:format", v |-> "dc.format", up |-> 0, append |-> FALSE, p |-> ""],
    [n |-> "dc:description", v |-> "dc.description", up |-> 2, append |-> TRUE, p |-> ""],
    [n |-> "dc:rights", v |-> "dc.rights", up |-> 2, append |-> TRUE, p |-> ""],
    [n |-> "dc:subject", v |-> "dc.subject", up |-> 2, append |-> TRUE, p |-> ""],
    [n |-> "dc:title", v |-> "dc.title", up |-> 2, append |-> TRUE, p |-> ""],
    [n |-> "aux:Lens", v |-> "Lens", up |-> 0, append |-> FALSE, p |-> ""],
    [n |-> "exif:GPSAltitude", v |-> "exif.GPSAltitude", up |-> 0, append |-> FALSE, p |-> ""],
    [n |-> "exif:GPSAltitudeRef", v |-> "exif.GPSAltitudeRef", up |-> 0, append |-> FALSE, p |-> ""],
    [n |-> "exif:GPSLatitude", v |-> "exif.GPSLatitude", up |-> 0, append |-> FALSE, p |-> ""],
    [n |-> "exif:GPSLongitude", v |-> "exif.GPSLongitude", up |-> 0, append |-> FALSE, p |-> ""],
    [n |-> "xmp:CreateDate", v |-> "CreateDate", up |-> 0, append |-> FALSE, p |-> ""],
    [n |-> "xmp:CreatorTool", v |-> "CreatorTool", up |-> 0, append |-> FALSE, p |-> ""],
    [n |-> "xmp:MetadataDate", v |-> "MetadataDate", up |-> 0, append |-> FALSE, p |-> ""],
    [n |-> "xmp:ModifyDate", v |-> "ModifyDate", up |-> 0, append |-> FALSE, p |-> ""],
    [n |-> "xmp:Rating", v |-> "Rating", up |-> 0, append |-> FALSE, p |-> ""],
    [n |-> "Iptc4xmpExt:AOCopyrightNotice", v |-> "Iptc4xmpExt.AOCopyrightNotice", up |-> 0, append |-> FALSE, p |-> ""],
    [n |-> "Iptc4xmpExt:AOCreator", v |-> "Iptc4xmpExt.AOCreator", up |-> 0, append |-> FALSE, p |-> ""],
    [n |-> "Iptc4xmpExt:AODateCreated", v |-> "Iptc4xmpExt.AODateCreated", up |-> 0, append |-> FALSE, p |-> ""],
    [n |-> "Iptc4xmpExt:AddlModelInfo", v |-> "Iptc4xmpExt.AddlModelInfo", up |-> 0, append |-> FALSE, p |-> ""],
    [n |-> "Iptc4xmpCore:CountryCode", v |-> "Iptc4xmpCore.CountryCode", up |-> 0, append |-> FALSE, p |-> ""]
  >>

npv_count == Len(npv)

XmpSlots == { npv[i].v : i \in 1..npv_count }

(***************************************************************************)
(* A Record as photos.c creates it: exif_info_t exif = {0}.  call and oob  *)
(* are history fields: the number of the top-level call in progress, and   *)
(* whether a byte was ever written at or beyond the end of strings[].      *)
(***************************************************************************)
ZeroRecord ==
  [ has_app1 |-> FALSE,
    has_xmp |-> FALSE,
    not_enough_memory |-> FALSE,
    strings |-> [i \in 1..ArenaSize |-> 0],
    next |-> 0,
    Fields |-> 0,
    str |-> [f \in StrFields |-> NullPtr],
    num |-> [f \in NumFields |-> 0],
    xmp |-> [f \in XmpSlots |-> NullPtr],
    call |-> 0,
    oob |-> FALSE ]

\* exif_clear: set the listed data members to their default values.
exif_clear(e) ==
  [ e EXCEPT
      !.Fields = EXIF_FIELD_NA,
      !.next = 0,
      !.str = [f \in StrFields |->
                 IF f \in ClearedStrFields THEN LitPtr ELSE e.str[f]],
      !.num = [f \in NumFields |->
                 IF f \in ClearedMaxFields THEN DBL_MAX
                 ELSE IF f \in ClearedZeroFields THEN 0
                 ELSE e.num[f]] ]

(***************************************************************************)
(* The arena: strings[] holds ArenaSize bytes, index off is strings[off].  *)
(* A store at or beyond the end is outside the array: it is recorded in    *)
(* oob and changes no byte of the array.                                   *)
(***************************************************************************)
ArenaStore(e, off, byte) ==
  IF off >= 0 /\ off < ArenaSize
    THEN [e EXCEPT !.strings[off + 1] = byte]
    ELSE [e EXCEPT !.oob = TRUE]

RECURSIVE ArenaCopy(_, _, _)
\* memcpy(strings + off, src, Len(src))
ArenaCopy(e, off, src) ==
  IF src = <<>> THEN e
  ELSE ArenaCopy(ArenaStore(e, off, Head(src)), off + 1, Tail(src))

RECURSIVE ArenaStr(_, _)
\* The C string that starts at strings + off (up to the first NUL, or the
\* end of the array).
ArenaStr(e, off) ==
  IF off < 0 \/ off >= ArenaSize \/ e.strings[off + 1] = 0 THEN <<>>
  ELSE <<e.strings[off + 1]>> \o ArenaStr(e, off + 1)

\* The C string a pointer field refers to; a null or dangling pointer has
\* none (the empty sequence stands for it, PtrValid tells them apart).
PtrStr(e, ptr) == IF ptr.k = "arena" THEN ArenaStr(e, ptr.off) ELSE <<>>

PtrValid(ptr) == ptr.k \in {"lit", "arena"}

(***************************************************************************)
(* Tag Value Codec.  b is the window of bytes the C pointer refers to.     *)
(***************************************************************************)
parse8(b) == b[1]

parse16(b, intel) ==
  IF intel THEN b[2] * 256 + b[1] ELSE b[1] * 256 + b[2]

\* (uint32_t)b << 24, for a byte b
Shl24(b) == (IF b >= 128 THEN b - 256 ELSE b) * 16777216

parse32(b, intel) ==
  IF intel
    THEN Shl24(b[4]) + b[3] * 65536 + b[2] * 256 + b[1]
    ELSE Shl24(b[1]) + b[2] * 65536 + b[3] * 256 + b[4]

\* |x| of an int32_t x (the magnitude of INT32_MIN is taken as INT32_MAX)
Abs(x) == IF x < -2147483647 THEN 2147483647 ELSE IF x < 0 THEN -x ELSE x

\* a / b as a double, in DblUnit units, of numbers a >= 0 and b > 0: the
\* quotient rounded down, and DblHuge for every quotient from DblHuge on.
Quot(a, b) ==
  LET q == a \div b
      r == a % b
      k == IF b > 262144 THEN 8192 ELSE 1
  IN  IF q >= DblHuge \div DblUnit THEN DblHuge
      ELSE Min(DblHuge, q * DblUnit + ((r \div k) * DblUnit) \div (b \div k))

\* (double)x / (double)y of two int32_t
DblDiv(x, y) ==
  IF (x < 0) = (y < 0) THEN Quot(Abs(x), Abs(y)) ELSE -Quot(Abs(x), Abs(y))

\* u >> 1 of a uint32_t u
Half(u) == IF u < 0 THEN (u \div 2) + 1073741824 + 1073741824 ELSE u \div 2

\* (double)x / (double)y of two uint32_t, y # 0
DblDivU(x, y) ==
  IF x >= 0 /\ y > 0 THEN Quot(x, y)
  ELSE Quot(Half(x), IF Half(y) = 0 THEN 1 ELSE Half(y))

\* The float whose IEEE-754 single-precision bits are u, in DblUnit units
\* (zero and denormals are 0; infinities, NaN and every magnitude from
\* DblHuge on are DblHuge).
FloatOfBits(u) ==
  LET e == (u \div 8388608) % 256
      m == u % 8388608
      mag == IF e = 0 THEN 0
             ELSE IF e > 145 THEN DblHuge
             ELSE Min(DblHuge, (((8388608 + m) \div 32) * DblUnit)
                                 \div (2 ^ Min(145 - e, 30)))
  IN  IF u < 0 THEN -mag ELSE mag

parse_float(b, intel) == FloatOfBits(parse32(b, intel))

parse_rational(b, intel, isSigned) ==
  LET denominator == parse32(SubSeq(b, 5, 8), intel)
      numerator == parse32(SubSeq(b, 1, 4), intel)
  IN  IF denominator = 0 THEN 0
      ELSE IF isSigned THEN DblDiv(numerator, denominator)
      ELSE DblDivU(numerator, denominator)

(***************************************************************************)
(* The decoder state of one EXIF segment: entry_parser_t p (data, bytes,   *)
(* tiff_header_start, alignIntel, offs, tag, format, length, info = ei)    *)
(* together with the locals of exif_parse_from_segment.  ok and val carry  *)
(* the result and the out-value of the last parser_fetch call.  History:   *)
(* oobRead - a byte outside data[0 .. bytes-1] was read; crash - a null    *)
(* pointer was dereferenced; oobField - a store went outside a Record      *)
(* array; visited - the p->offs of every parse_tag, in order; declared -   *)
(* the sum of the num_entries of the directory walks begun; trunc - the  *)
(* Record and the number of entries visited at the moment an IFD inside    *)
(* the buffer declared more entries than the buffer holds; junk - the      *)
(* value an out-of-buffer read produces; stop - exif_parse_from_segment    *)
(* has returned, with ret; mnote - a well-formed DJI MakerNote directory   *)
(* was met with Make equal to "DJI" ("dji") or not ("other").              *)
(***************************************************************************)
NewParser(e, data, bytes, junk) ==
  [ ei |-> e, data |-> data, bytes |-> bytes, junk |-> junk,
    tiff_header_start |-> 0, alignIntel |-> FALSE,
    offs |-> 0, tag |-> 0, format |-> 0, length |-> 0,
    exif_sub_ifd_offset |-> 0, gps_sub_ifd_offset |-> 0,
    ok |-> FALSE, val |-> 0,
    oobRead |-> FALSE, crash |-> FALSE, oobField |-> FALSE,
    visited |-> <<>>, declared |-> 0, trunc |-> <<>>, mnote |-> "none",
    stop |-> FALSE,
    ret |-> EXIF_PARSE_SUCCESS ]

InBuf(s, i, n) == i >= 0 /\ i <= s.bytes - n /\ i <= Len(s.data) - n

\* data[i]
Rd(s, i) == IF InBuf(s, i, 1) THEN s.data[i + 1] ELSE s.junk

\* the window data[i .. i+n-1]
RdN(s, i, n) == [k \in 1..n |-> Rd(s, PtrAdd(i, k - 1))]

\* record that data[i .. i+n-1] was read
Touch(s, i, n) == IF InBuf(s, i, n) THEN s ELSE [s EXCEPT !.oobRead = TRUE]

parser_init(s, offs) == [s EXCEPT !.offs = Add32(offs, -12)]

get_data(s) == parse32(RdN(s, PtrAdd(s.offs, 8), 4), s.alignIntel)

get_sub_ifd(s) == Add32(s.tiff_header_start, get_data(s))

is_short(s) == s.format = 3
is_long(s) == s.format = 4
is_rational(s) == s.format = 5 \/ s.format = 10
is_signed_rational(s) == s.format = 10
is_float(s) == s.format = 11
is_undefined(s) == s.format = 7

parse_tag(s) ==
  LET o == Add32(s.offs, 12)
  IN  Touch([s EXCEPT !.offs = o,
                      !.tag = parse16(RdN(s, o, 2), s.alignIntel),
                      !.format = parse16(RdN(s, PtrAdd(o, 2), 2), s.alignIntel),
                      !.length = parse32(RdN(s, PtrAdd(o, 4), 4), s.alignIntel),
                      !.visited = Append(@, o)], o, 8)

\* (value >> j) & 0xff
ByteOf(value, j) == (value \div (2 ^ j)) % 256

RECURSIVE StrScan(_, _, _, _)
\* while (num < num_components && s[num] != 0) ++num;  src is the offset of
\* s in data.  The scan is followed only as far as the buffer reaches.
StrScan(s, src, num, num_components) ==
  IF Ult(num, num_components) /\ InBuf(s, src + num, 1) /\ Rd(s, src + num) # 0
    THEN StrScan(s, src, num + 1, num_components)
    ELSE num

RECURSIVE StrTrim(_, _, _)
\* while (num && s[num-1] == ' ') --num;
StrTrim(s, src, num) ==
  IF num > 0 /\ Rd(s, src + num - 1) = 32 THEN StrTrim(s, src, num - 1) ELSE num

parse_string(s, num_components, value, base, count, intel) ==
  LET res == s.ei.next
      resPtr == ArenaPtr(res, s.ei.call)
  IN
  IF Ule(num_components, 4) THEN
    IF s.ei.next + ArenaSize <= num_components + 1
      THEN [s EXCEPT !.val = LitPtr]
      ELSE
        LET bs == [i \in 1..num_components |->
                     ByteOf(value, IF intel THEN 8 * (i - 1) ELSE 24 - 8 * (i - 1))]
            e1 == [s.ei EXCEPT !.next = @ + num_components + 1]
        IN  [s EXCEPT !.ei = ArenaCopy(e1, res, bs), !.val = resPtr]
  ELSE IF Ule(Add32(Add32(base, value), num_components), count) THEN
    LET src == PtrAdd(value, base)
        n0 == StrScan(s, src, 0, num_components)
        s1 == IF Ult(n0, num_components) /\ ~InBuf(s, src + n0, 1)
                THEN [s EXCEPT !.oobRead = TRUE] ELSE s
        num == StrTrim(s, src, n0)
    IN
    IF s.ei.next + ArenaSize <= num + 1
      THEN [s1 EXCEPT !.val = LitPtr]
      ELSE
        LET e1 == [s.ei EXCEPT !.next = @ + num + 1]
            e2 == ArenaCopy(e1, res, RdN(s, src, num))
        IN  [s1 EXCEPT !.ei = ArenaStore(e2, res + num, 0), !.val = resPtr]
  ELSE [s EXCEPT !.val = resPtr]

parser_fetch_str(s) ==
  IF s.format # 2 \/ s.length = 0 THEN [s EXCEPT !.ok = FALSE]
  ELSE [Touch(parse_string(s, s.length, get_data(s), s.tiff_header_start,
                           s.bytes, s.alignIntel), PtrAdd(s.offs, 8), 4)
          EXCEPT !.ok = TRUE]

parser_fetch8(s) ==
  IF (s.format # 1 /\ s.format # 2 /\ s.format # 6) \/ s.length = 0
    THEN [s EXCEPT !.ok = FALSE]
    ELSE [Touch(s, PtrAdd(s.offs, 8), 1) EXCEPT
            !.ok = TRUE, !.val = parse8(RdN(s, PtrAdd(s.offs, 8), 1))]

parser_fetch16(s) ==
  IF ~is_short(s) \/ s.length = 0 THEN [s EXCEPT !.ok = FALSE]
  ELSE [Touch(s, PtrAdd(s.offs, 8), 2) EXCEPT
          !.ok = TRUE, !.val = parse16(RdN(s, PtrAdd(s.offs, 8), 2), s.alignIntel)]

parser_fetch16_idx(s, idx) ==
  IF ~is_short(s) \/ Ule(s.length, idx) THEN [s EXCEPT !.ok = FALSE]
  ELSE [Touch(Touch(s, PtrAdd(s.offs, 8), 4), PtrAdd(get_sub_ifd(s), idx * 2), 2) EXCEPT
          !.ok = TRUE,
          !.val = parse16(RdN(s, PtrAdd(get_sub_ifd(s), idx * 2), 2), s.alignIntel)]

parser_fetch32(s) ==
  IF ~is_long(s) \/ s.length = 0 THEN [s EXCEPT !.ok = FALSE]
  ELSE [Touch(s, PtrAdd(s.offs, 8), 4) EXCEPT
          !.ok = TRUE, !.val = parse32(RdN(s, PtrAdd(s.offs, 8), 4), s.alignIntel)]

parser_fetch_float(s) ==
  IF ~is_float(s) \/ s.length = 0 THEN [s EXCEPT !.ok = FALSE]
  ELSE [Touch(s, PtrAdd(s.offs, 8), 4) EXCEPT
          !.ok = TRUE, !.val = parse_float(RdN(s, PtrAdd(s.offs, 8), 4), s.alignIntel)]

parser_fetch_double(s) ==
  IF ~is_rational(s) \/ s.length = 0 THEN [s EXCEPT !.ok = FALSE]
  ELSE [Touch(Touch(s, PtrAdd(s.offs, 8), 4), PtrAdd(get_sub_ifd(s), 0), 8) EXCEPT
          !.ok = TRUE,
          !.val = parse_rational(RdN(s, PtrAdd(get_sub_ifd(s), 0), 8), s.alignIntel,
                                 is_signed_rational(s))]

parser_fetch_double_idx(s, idx) ==
  IF ~is_rational(s) \/ Ule(s.length, idx) THEN [s EXCEPT !.ok = FALSE]
  ELSE [Touch(Touch(s, PtrAdd(s.offs, 8), 4), PtrAdd(get_sub_ifd(s), idx * 8), 8) EXCEPT
          !.ok = TRUE,
          !.val = parse_rational(RdN(s, PtrAdd(get_sub_ifd(s), idx * 8), 8),
                                 s.alignIntel, is_signed_rational(s))]

\* float to double: the value is kept
parser_fetch_float_as_doble(s) == parser_fetch_float(s)

\* A parser_fetch call whose out-parameter is the numeric field f: the
\* field is assigned only when the call succeeds.
IntoNum(s, f) == IF s.ok THEN [s EXCEPT !.ei.num[f] = s.val] ELSE s

\* A parser_fetch_str call whose out-parameter is the string field f.
IntoStr(s, f) == IF s.ok THEN [s EXCEPT !.ei.str[f] = s.val] ELSE s

(***************************************************************************)
(* Strings of the program, as byte sequences.                              *)
(***************************************************************************)
ExifPreamble == <<69, 120, 105, 102, 0, 0>>      \* "Exif\0\0"
DJI == <<68, 74, 73>>                            \* "DJI"

ToUpper(c) == IF c >= 97 /\ c <= 122 THEN c - 32 ELSE c

\* 0 == strcasecmp(a, b)
StrCaseEq(a, b) ==
  Len(a) = Len(b) /\ \A i \in 1..Len(a) : ToUpper(a[i]) = ToUpper(b[i])

\* (uint16_t)x of a double x
DblToU16(x) == (x \div DblUnit) % 65536

\* (int8_t)x of a uint8_t x
S8(x) == IF x >= 128 THEN x - 256 ELSE x

\* 1.0 / exp(v * log(2)), for the whole part of v
ApexShutter(v) ==
  LET k == v \div DblUnit
  IN  IF k >= 0 THEN DblUnit \div (2 ^ Min(k, 30))
      ELSE IF -k > 17 THEN DblHuge
      ELSE DblUnit * (2 ^ (-k))

\* exp(v * log(2) * 0.5), for the whole part of v
ApexAperture(v) ==
  LET k == v \div DblUnit
      h == k \div 2
      b == IF h > 17 THEN DblHuge
           ELSE IF h >= 0 THEN DblUnit * (2 ^ h)
           ELSE DblUnit \div (2 ^ Min(-h, 30))
  IN  IF k % 2 = 0 THEN b
      ELSE Min(DblHuge, (b \div 10000) * 14142 + ((b % 10000) * 14142) \div 10000)

(***************************************************************************)
(* Vendor MakerNote decoder.                                               *)
(***************************************************************************)
MakerNoteTag(s) ==
  CASE s.tag = 3 -> IntoNum(parser_fetch_float_as_doble(s), "GeoLocation.SpeedX")
    [] s.tag = 4 -> IntoNum(parser_fetch_float_as_doble(s), "GeoLocation.SpeedY")
    [] s.tag = 5 -> IntoNum(parser_fetch_float_as_doble(s), "GeoLocation.SpeedZ")
    [] s.tag = 9 -> IntoNum(parser_fetch_float_as_doble(s), "GeoLocation.PitchDegree")
    [] s.tag = 10 -> IntoNum(parser_fetch_float_as_doble(s), "GeoLocation.YawDegree")
    [] s.tag = 11 -> IntoNum(parser_fetch_float_as_doble(s), "GeoLocation.RollDegree")
    [] OTHER -> s

RECURSIVE MakerNoteLoop(_, _)
\* while (--num_entries >= 0) { parse_tag(p); switch (p->tag) ... }
\* n is num_entries before the test.  The walk is not followed into
\* entries that lie outside the buffer.
MakerNoteLoop(s, n) ==
  IF n - 1 < 0 THEN s
  ELSE LET s1 == parse_tag(s)
       IN  IF ~InBuf(s1, s1.offs, 12) THEN s1
           ELSE MakerNoteLoop(MakerNoteTag(s1), n - 1)

\* The directory entry at byte position o of the buffer.
EntryAt(s, o) ==
  [ tag |-> parse16(RdN(s, o, 2), s.alignIntel),
    format |-> parse16(RdN(s, o + 2, 2), s.alignIntel),
    length |-> parse32(RdN(s, o + 4, 4), s.alignIntel),
    val |-> RdN(s, o + 8, 4) ]

\* History: the MakerNote entry at p->offs refers to a directory that lies
\* in the buffer, whose count c satisfies 2 + 12 * c <= p->length, whose
\* first entry is tag 1 with the string "DJI", and which holds tags 3, 4,
\* 5, 9, 10 and 11 as float entries.
WellFormedMakerNote(s) ==
  LET off == get_sub_ifd(s)
  IN  /\ InBuf(s, off, 2)
      /\ LET c == parse16(RdN(s, off, 2), s.alignIntel)
         IN  /\ c >= 1
             /\ InBuf(s, off, 2 + 12 * c)
             /\ 2 + 12 * c <= s.length
             /\ EntryAt(s, off + 2).tag = 1
             /\ EntryAt(s, off + 2).format = 2
             /\ EntryAt(s, off + 2).length = 4
             /\ EntryAt(s, off + 2).val = DJI \o <<0>>
             /\ \A g \in {3, 4, 5, 9, 10, 11} :
                  \E i \in 1..(c - 1) :
                    /\ EntryAt(s, off + 2 + 12 * i).tag = g
                    /\ EntryAt(s, off + 2 + 12 * i).format = 11
                    /\ EntryAt(s, off + 2 + 12 * i).length = 1

NoteMakerNote(s) ==
  IF WellFormedMakerNote(s)
    THEN [s EXCEPT !.mnote = IF StrCaseEq(PtrStr(s.ei, s.ei.str["Make"]), DJI)
                               THEN "dji" ELSE "other"]
    ELSE s

MakerNoteBody(s) ==
  LET startOff == s.offs
      off == get_sub_ifd(s)
      num_entries == parse16(RdN(s, s.offs, 2), s.alignIntel)
  IN
  IF ~StrCaseEq(PtrStr(s.ei, s.ei.str["Make"]), DJI) THEN s
  ELSE IF Ult(s.length, 2 + 12 * num_entries) THEN s
  ELSE
    LET s1 == parse_tag(parser_init([s EXCEPT !.declared = @ + num_entries],
                                    Add32(off, 2)))
        s2 == IF s1.tag = 1 THEN parser_fetch_str(s1) ELSE [s1 EXCEPT !.ok = FALSE]
        s3 == IF s1.tag = 1 /\ s2.ok /\ StrCaseEq(PtrStr(s2.ei, s2.val), DJI)
                THEN MakerNoteLoop(s2, num_entries - 1)
                ELSE s2
    IN  parser_init(s3, Add32(startOff, 12))

exif_parse_ifd_maker_note(s) == MakerNoteBody(NoteMakerNote(s))

(***************************************************************************)
(* TIFF/IFD decoder: the three tag groups.                                 *)
(***************************************************************************)
exif_parse_ifd_gps(s) ==
  CASE s.tag = 1 ->
         IntoNum(parser_fetch8(s), "GeoLocation.LatComponents.direction")
    [] s.tag = 2 ->
         IF is_rational(s) /\ s.length = 3
           THEN IntoNum(parser_fetch_double_idx(
                  IntoNum(parser_fetch_double_idx(
                    IntoNum(parser_fetch_double_idx(s, 0),
                            "GeoLocation.LatComponents.degrees"), 1),
                          "GeoLocation.LatComponents.minutes"), 2),
                        "GeoLocation.LatComponents.seconds")
           ELSE s
    [] s.tag = 3 ->
         IntoNum(parser_fetch8(s), "GeoLocation.LonComponents.direction")
    [] s.tag = 4 ->
         IF is_rational(s) /\ s.length = 3
           THEN IntoNum(parser_fetch_double_idx(
                  IntoNum(parser_fetch_double_idx(
                    IntoNum(parser_fetch_double_idx(s, 0),
                            "GeoLocation.LonComponents.degrees"), 1),
                          "GeoLocation.LonComponents.minutes"), 2),
                        "GeoLocation.LonComponents.seconds")
           ELSE s
    [] s.tag = 5 ->
         LET s1 == parser_fetch8(s)
             altitude == IF s1.ok THEN s1.val ELSE 0
         IN  [s1 EXCEPT !.ei.num["GeoLocation.AltitudeRef"] = S8(altitude)]
    [] s.tag = 6 ->
         IntoNum(parser_fetch_double(s), "GeoLocation.Altitude")
    [] s.tag = 7 ->
         IF is_rational(s) /\ s.length = 3
           THEN LET s1 == parser_fetch_double_idx(
                            parser_fetch_double_idx(
                              parser_fetch_double_idx(s, 0), 1), 2)
                IN  [s1 EXCEPT !.ei.str["GeoLocation.GPSTimeStamp"] = StackPtr]
           ELSE s
    [] s.tag = 11 ->
         IntoNum(parser_fetch_double(s), "GeoLocation.GPSDOP")
    [] s.tag = 18 ->
         IntoStr(parser_fetch_str(s), "GeoLocation.GPSMapDatum")
    [] s.tag = 29 ->
         IntoStr(parser_fetch_str(s), "GeoLocation.GPSDateStamp")
    [] s.tag = 30 ->
         IntoNum(parser_fetch16(s), "GeoLocation.GPSDifferential")
    [] OTHER -> s

\* The cases of exif_parse_ifd that are one parser_fetch call into one
\* field: k names the call (dbl: parser_fetch_double, u16: parser_fetch16,
\* u32: parser_fetch32, str: parser_fetch_str, u32or16: parser_fetch32 and,
\* when that fails, parser_fetch16).
ExifTagTable ==
  (TAG_EXPOSURETIME :> [k |-> "dbl", f |-> "ExposureTime"]) @@
  (TAG_FNUMBER :> [k |-> "dbl", f |-> "FNumber"]) @@
  (TAG_EXPOSURE_PROGRAM :> [k |-> "u16", f |-> "ExposureProgram"]) @@
  (TAG_ISOSPEED :> [k |-> "u16", f |-> "ISOSpeedRatings"]) @@
  (TAG_DATE_TIME_ORIGINAL :> [k |-> "str", f |-> "DateTimeOriginal"]) @@
  (TAG_DATE_TIME_DIGITIZED :> [k |-> "str", f |-> "DateTimeDigitized"]) @@
  (TAG_BRIGHTNESS_VALUE :> [k |-> "dbl", f |-> "BrightnessValue"]) @@
  (TAG_EXPOSURE_BIAS_VALUE :> [k |-> "dbl", f |-> "ExposureBiasValue"]) @@
  (TAG_SUBJECT_DISTANCE :> [k |-> "dbl", f |-> "SubjectDistance"]) @@
  (TAG_METRIC_MODULE :> [k |-> "u16", f |-> "MeteringMode"]) @@
  (TAG_LIGHT_SOURCE :> [k |-> "u16", f |-> "LightSource"]) @@
  (TAG_FLASH :> [k |-> "u16", f |-> "Flash"]) @@
  (TAG_FOCAL_LENGTH :> [k |-> "dbl", f |-> "FocalLength"]) @@
  (TAG_USERCOMMENT :> [k |-> "str", f |-> "ImageDescription"]) @@
  (TAG_SUB_SEC_TIME_ORIGINAL :> [k |-> "str", f |-> "SubSecTimeOriginal"]) @@
  (TAG_COMP_IMAGE_WIDTH :> [k |-> "u32or16", f |-> "ImageWidth"]) @@
  (TAG_COMP_IMAGE_HEIGHT :> [k |-> "u32or16", f |-> "ImageHeight"]) @@
  (TAG_FOCALPLANE_X_RES :> [k |-> "dbl", f |-> "LensInfo.FocalPlaneXResolution"]) @@
  (TAG_FOCALPLANE_Y_RES :> [k |-> "dbl", f |-> "LensInfo.FocalPlaneYResolution"]) @@
  (TAG_FOCALPLANE_RESOLUTION_UNIT :> [k |-> "u16", f |-> "LensInfo.FocalPlaneResolutionUnit"]) @@
  (TAG_DIGITAL_ZOOM_RATIO :> [k |-> "dbl", f |-> "LensInfo.DigitalZoomRatio"]) @@
  (42033 :> [k |-> "str", f |-> "SerialNumber"]) @@        \* 0xa431
  (42035 :> [k |-> "str", f |-> "LensInfo.Make"]) @@       \* 0xa433
  (42036 :> [k |-> "str", f |-> "LensInfo.Model"]) @@      \* 0xa434
  (TAG_ARTIST :> [k |-> "str", f |-> "Artist"]) @@
  (TAG_EXIFVERSION :> [k |-> "u32", f |-> "ExifVersion"]) @@
  (TAG_MAX_APERTURE :> [k |-> "dbl", f |-> "MaxAperture"]) @@
  (TAG_COLOR_SPACE :> [k |-> "u16", f |-> "ColorSpace"]) @@
  (TAG_SENSING_METHOD :> [k |-> "u16", f |-> "SensingMethod"]) @@
  (TAG_SCENE_TYPE :> [k |-> "u16", f |-> "SceneType"]) @@
  (TAG_EXPOSURE_MODE :> [k |-> "u16", f |-> "ExposureMode"]) @@
  (TAG_WHITE_BALANCE :> [k |-> "u16", f |-> "WhiteBalance"]) @@
  (TAG_SCENE_CAPTURE_TYPE :> [k |-> "u16", f |-> "CaptureType"]) @@
  (TAG_YCC_POSITIONING :> [k |-> "u16", f |-> "YCCPositioning"]) @@
  (TAG_OFFSET_TIME_ORIGINAL :> [k |-> "str", f |-> "OffsetTimeOriginal"]) @@
  (TAG_COMPONENT_CONFIG :> [k |-> "u16", f |-> "ComponentConfig"]) @@
  (TAG_FLASH_PIX_VERSION :> [k |-> "u32", f |-> "FlashPixVersion"])

\* The like cases of exif_parse_ifd_image.
ImageTagTable ==
  (TAG_BITS_PER_SAMPLE :> [k |-> "u16", f |-> "BitsPerSample"]) @@
  (TAG_IMAGE_DESCRIPTION :> [k |-> "str", f |-> "ImageDescription"]) @@
  (TAG_MAKE :> [k |-> "str", f |-> "Make"]) @@
  (TAG_MODEL :> [k |-> "str", f |-> "Model"]) @@
  (TAG_ORIENTATION :> [k |-> "u16", f |-> "Orientation"]) @@
  (TAG_X_RESOLUTION :> [k |-> "dbl", f |-> "XResolution"]) @@
  (TAG_Y_RESOLUTION :> [k |-> "dbl", f |-> "YResolution"]) @@
  (TAG_RESOLUTION_UNIT :> [k |-> "u16", f |-> "ResolutionUnit"]) @@
  (TAG_SOFTWARE :> [k |-> "str", f |-> "Software"]) @@
  (TAG_DATETIME :> [k |-> "str", f |-> "DateTime"]) @@
  (4097 :> [k |-> "u32or16", f |-> "RelatedImageWidth"]) @@   \* 0x1001
  (4098 :> [k |-> "u32or16", f |-> "RelatedImageHeight"]) @@  \* 0x1002
  (TAG_COPYRIGHT :> [k |-> "str", f |-> "Copyright"])

FetchInto(s, e) ==
  CASE e.k = "dbl" -> IntoNum(parser_fetch_double(s), e.f)
    [] e.k = "u16" -> IntoNum(parser_fetch16(s), e.f)
    [] e.k = "u32" -> IntoNum(parser_fetch32(s), e.f)
    [] e.k = "str" -> IntoStr(parser_fetch_str(s), e.f)
    [] e.k = "u32or16" ->
         LET s1 == parser_fetch32(s)
         IN  IF s1.ok THEN IntoNum(s1, e.f) ELSE IntoNum(parser_fetch16(s1), e.f)

SubjectAreaField(i) ==
  CASE i = 0 -> "SubjectArea[0]" [] i = 1 -> "SubjectArea[1]"
    [] i = 2 -> "SubjectArea[2]" [] OTHER -> "SubjectArea[3]"

RECURSIVE SubjectAreaLoop(_, _)
\* for (i = 0; i < SubjectAreas; i++) parser_fetch16_idx(p, &SubjectArea[i], i);
\* SubjectArea has 4 elements; a store to SubjectArea[i], i >= 4, is outside
\* the array, and the loop is not followed beyond the first such store.
SubjectAreaLoop(s, i) ==
  IF i >= s.ei.num["SubjectAreas"] THEN s
  ELSE IF i >= 4 THEN [parser_fetch16_idx(s, i) EXCEPT !.oobField = TRUE]
  ELSE SubjectAreaLoop(IntoNum(parser_fetch16_idx(s, i), SubjectAreaField(i)), i + 1)

exif_parse_ifd(s) ==
  CASE s.tag = 700 ->                                         \* 0x02bc
         LET s1 == [s EXCEPT !.ei.has_xmp = TRUE]
         IN  \* is_undefined excludes the ASCII format parser_fetch_str
             \* wants, so xml stays null and strlen(xml) reads through it
             IF is_undefined(s1)
               THEN [parser_fetch_str(s1) EXCEPT !.crash = TRUE]
               ELSE s1
    [] s.tag = TAG_SHUTTERSPEED ->
         LET s1 == IntoNum(parser_fetch_double(s), "ShutterSpeedValue")
         IN  [s1 EXCEPT !.ei.num["ShutterSpeedValue"] = ApexShutter(@)]
    [] s.tag = TAG_APERTURE ->
         LET s1 == IntoNum(parser_fetch_double(s), "ApertureValue")
         IN  [s1 EXCEPT !.ei.num["ApertureValue"] = ApexAperture(@)]
    [] s.tag = TAG_SUBJECT_AREA ->
         IF is_short(s) /\ Ult(1, s.length)
           THEN SubjectAreaLoop(
                  [s EXCEPT !.ei.num["SubjectAreas"] = s.length % 65536], 0)
           ELSE s
    [] s.tag = TAG_MAKER_NOTE -> exif_parse_ifd_maker_note(s)
    [] s.tag = TAG_EXPOSURE_INDEX ->
         IF s.ei.num["ISOSpeedRatings"] = 0
           THEN LET s1 == parser_fetch_double(s)
                IN  IF s1.ok
                      THEN [s1 EXCEPT !.ei.num["ISOSpeedRatings"] = DblToU16(s1.val)]
                      ELSE s1
           ELSE s
    [] s.tag = TAG_FOCAL_LENGTH_IN_35_MM_FILM ->
         LET s1 == parser_fetch_double(s)
         IN  IF s1.ok THEN IntoNum(s1, "LensInfo.FocalLengthIn35mm")
             ELSE LET s2 == parser_fetch16(s1)
                  IN  IF s2.ok
                        THEN [s2 EXCEPT !.ei.num["LensInfo.FocalLengthIn35mm"] =
                                          s2.val * DblUnit]
                        ELSE s2
    [] s.tag = 42034 ->                                       \* 0xa432
         LET s1 == parser_fetch_double_idx(s, 0)
             s2 == parser_fetch_double_idx(IntoNum(s1, "LensInfo.FocalLengthMin"), 1)
             s3 == parser_fetch_double_idx(IntoNum(s2, "LensInfo.FocalLengthMax"), 2)
             s4 == parser_fetch_double_idx(IntoNum(s3, "LensInfo.FStopMin"), 3)
         IN  IF ~s1.ok THEN s1
             ELSE IF ~s2.ok THEN s2
             ELSE IF ~s3.ok THEN s3
             ELSE IntoNum(s4, "LensInfo.FStopMax")
    [] s.tag \in DOMAIN ExifTagTable -> FetchInto(s, ExifTagTable[s.tag])
    [] OTHER -> s

exif_parse_ifd_image(s) ==
  CASE s.tag = TAG_EXIF_IFD_POINTER ->
         [Touch(s, PtrAdd(s.offs, 8), 4) EXCEPT !.exif_sub_ifd_offset = get_sub_ifd(s)]
    [] s.tag = TAG_GPS_IFD_POINTER ->
         [Touch(s, PtrAdd(s.offs, 8), 4) EXCEPT !.gps_sub_ifd_offset = get_sub_ifd(s)]
    [] s.tag \in DOMAIN ImageTagTable -> FetchInto(s, ImageTagTable[s.tag])
    [] OTHER -> exif_parse_ifd(s)

(***************************************************************************)
(* GPS coordinate normalizer.  A sum with DBL_MAX stays DBL_MAX.           *)
(***************************************************************************)
CoordSum(c) ==
  IF c.degrees = DBL_MAX THEN DBL_MAX
  ELSE c.degrees + (c.minutes \div 60) + (c.seconds \div 3600)

geolocation_parse_coords(e) ==
  LET lat == [degrees |-> e.num["GeoLocation.LatComponents.degrees"],
              minutes |-> e.num["GeoLocation.LatComponents.minutes"],
              seconds |-> e.num["GeoLocation.LatComponents.seconds"]]
      lon == [degrees |-> e.num["GeoLocation.LonComponents.degrees"],
              minutes |-> e.num["GeoLocation.LonComponents.minutes"],
              seconds |-> e.num["GeoLocation.LonComponents.seconds"]]
      e1 == IF lat.degrees # DBL_MAX \/ lat.minutes # 0 \/ lat.seconds # 0
              THEN [e EXCEPT !.num["GeoLocation.Latitude"] =
                      IF e.num["GeoLocation.LatComponents.direction"] = 83   \* 'S'
                        THEN -CoordSum(lat) ELSE CoordSum(lat)]
              ELSE e
      e2 == IF lon.degrees # DBL_MAX \/ lon.minutes # 0 \/ lon.seconds # 0
              THEN [e1 EXCEPT !.num["GeoLocation.Longitude"] =
                      IF e.num["GeoLocation.LonComponents.direction"] = 87   \* 'W'
                        THEN -CoordSum(lon) ELSE CoordSum(lon)]
              ELSE e1
  IN  IF e2.num["GeoLocation.Altitude"] # DBL_MAX /\ e2.num["GeoLocation.AltitudeRef"] = 1
        THEN [e2 EXCEPT !.num["GeoLocation.Altitude"] = -@]
        ELSE e2

(***************************************************************************)
(* EXIF segment decoder.                                                   *)
(***************************************************************************)
IfdTag(s, group) ==
  CASE group = "image" -> exif_parse_ifd_image(s)
    [] group = "exif" -> exif_parse_ifd(s)
    [] OTHER -> exif_parse_ifd_gps(s)

RECURSIVE IfdLoop(_, _, _)
\* while (--num_entries >= 0) { parse_tag(&p); exif_parse_ifd_<group>(&p); }
\* n is num_entries before the test.  The walk ends at a null dereference,
\* and is not followed into entries that lie outside the buffer.
IfdLoop(s, n, group) ==
  IF n - 1 < 0 \/ s.crash THEN s
  ELSE LET s1 == parse_tag(s)
       IN  IF ~InBuf(s1, s1.offs, 12) THEN s1
           ELSE IfdLoop(IfdTag(s1, group), n - 1, group)

\* History: the IFD at offs, whose count n was read inside the buffer,
\* declares entries that extend past the end of the buffer.
NoteTrunc(s, group, offs, n) ==
  IF InBuf(s, offs, 2) /\ offs + 2 + 12 * n > s.bytes /\ s.trunc = <<>>
    THEN [s EXCEPT !.trunc = <<[ifd |-> group, ei |-> s.ei,
                                visited |-> Len(s.visited)]>>]
    ELSE s

\* offs + 6 + 12 * num_entries > bytes, in uint32_t: the directory at offs
\* (count, entries, link to the next one) does not fit in the buffer
IfdOverrun(offs, num_entries, bytes) ==
  Ult(bytes, Add32(offs, 6 + 12 * num_entries))

\* the Exif sub-IFD of exif_parse_from_segment
ExifSubIfd(s) ==
  IF s.crash THEN s
  ELSE IF Ule(Add32(s.exif_sub_ifd_offset, 4), s.bytes) THEN
    LET offs == s.exif_sub_ifd_offset
        num_entries == parse16(RdN(s, offs, 2), s.alignIntel)
        s1 == NoteTrunc(Touch(s, offs, 2), "exif", offs, num_entries)
    IN  IF IfdOverrun(offs, num_entries, s.bytes)
          THEN [s1 EXCEPT !.ret = EXIF_PARSE_CORRUPT_DATA, !.stop = TRUE]
          ELSE IfdLoop(parser_init([s1 EXCEPT !.declared = @ + num_entries],
                                   Add32(offs, 2)), num_entries, "exif")
  ELSE s

\* geolocation_parse_coords(ei); return EXIF_PARSE_SUCCESS;
GpsDone(s) ==
  IF s.crash THEN s
  ELSE [s EXCEPT !.ei = geolocation_parse_coords(s.ei),
                 !.ret = EXIF_PARSE_SUCCESS, !.stop = TRUE]

\* the GPS sub-IFD of exif_parse_from_segment, and its return
GpsSubIfd(s) ==
  IF s.crash \/ s.stop THEN s
  ELSE IF Ule(Add32(s.gps_sub_ifd_offset, 4), s.bytes) THEN
    LET offs == s.gps_sub_ifd_offset
        num_entries == parse16(RdN(s, offs, 2), s.alignIntel)
        s1 == NoteTrunc(Touch(s, offs, 2), "gps", offs, num_entries)
    IN  IF IfdOverrun(offs, num_entries, s.bytes)
          THEN [s1 EXCEPT !.ret = EXIF_PARSE_CORRUPT_DATA, !.stop = TRUE]
          ELSE GpsDone(IfdLoop(parser_init([s1 EXCEPT !.declared = @ + num_entries],
                                           Add32(offs, 2)), num_entries, "gps"))
  ELSE [s EXCEPT !.ret = EXIF_PARSE_SUCCESS, !.stop = TRUE]

\* 0x2a == v
IsTiffMagic(v) == v = 42

exif_parse_from_segment(e, data, bytes, junk) ==
  LET p0 == NewParser(e, data, bytes, junk)
  IN
  IF bytes < 6 THEN [p0 EXCEPT !.ret = EXIF_PARSE_ABSENT_DATA]
  ELSE IF RdN(p0, 0, 6) # ExifPreamble THEN [p0 EXCEPT !.ret = EXIF_PARSE_ABSENT_DATA]
  ELSE IF 6 + 8 > bytes THEN [p0 EXCEPT !.ret = EXIF_PARSE_CORRUPT_DATA]
  ELSE IF ~(   (Rd(p0, 6) = 73 /\ Rd(p0, 7) = 73)          \* 'I' 'I'
            \/ (Rd(p0, 6) = 77 /\ Rd(p0, 7) = 77))         \* 'M' 'M'
    THEN [p0 EXCEPT !.ret = EXIF_PARSE_UNKNOWN_BYTEALIGN]
  ELSE
    LET p1 == [p0 EXCEPT !.tiff_header_start = 6, !.alignIntel = (Rd(p0, 6) = 73)]
    IN
    IF ~IsTiffMagic(parse16(RdN(p1, 8, 2), p1.alignIntel))
      THEN [p1 EXCEPT !.ret = EXIF_PARSE_CORRUPT_DATA]
    ELSE
      LET first_ifd_offset == parse32(RdN(p1, 10, 4), p1.alignIntel)
          offs == Add32(10, Add32(first_ifd_offset, -4))
      IN
      IF Ule(bytes, offs) THEN [p1 EXCEPT !.ret = EXIF_PARSE_CORRUPT_DATA]
      ELSE IF Ult(bytes, Add32(offs, 2)) THEN [p1 EXCEPT !.ret = EXIF_PARSE_CORRUPT_DATA]
      ELSE
        LET num_entries == parse16(RdN(p1, offs, 2), p1.alignIntel)
            p2 == NoteTrunc(p1, "image", offs, num_entries)
        IN
        IF IfdOverrun(offs, num_entries, bytes)
          THEN [p2 EXCEPT !.ret = EXIF_PARSE_CORRUPT_DATA]
          ELSE GpsSubIfd(ExifSubIfd(IfdLoop(
                 parser_init([p2 EXCEPT !.exif_sub_ifd_offset = bytes,
                                        !.gps_sub_ifd_offset = bytes,
                                        !.declared = @ + num_entries], Add32(offs, 2)),
                 num_entries, "image")))

(***************************************************************************)
(* XMP extractor.  The XML tokenizer (yxml_parse, yxml_eof) is a library   *)
(* outside this repository; a document is given here as the sequence of    *)
(* results yxml_parse returns for its bytes, one record per byte:          *)
(*   [r |-> "OK"]                       no event                           *)
(*   [r |-> "ELEMSTART", elem |-> name] an element opens, x->elem = name   *)
(*   [r |-> "CONTENT", data |-> bytes]  content, x->data = bytes           *)
(*   [r |-> "ELEMEND"]                  the open element closes            *)
(*   [r |-> "ATTR"]                     an attribute or PI event           *)
(*   [r |-> "ESYN"]                     a negative result (syntax error)   *)
(* The extractor state is xml_context_t: ei, stack[0 .. top-1] (top is     *)
(* Len(stack)), index; started is the set of slots whose capture began in  *)
(* this run (history; the scanner adds up the runs of one call); handled    *)
(* counts the bytes given to yxml_parse, junk is the value a read outside  *)
(* the arena produces.                                                     *)
(***************************************************************************)
XmpPreamble ==                       \* "http://ns.adobe.com/xap/1.0/\0"
  <<104, 116, 116, 112, 58, 47, 47, 110, 115, 46, 97, 100, 111, 98, 101,
    46, 99, 111, 109, 47, 120, 97, 112, 47, 49, 46, 48, 47, 0>>

NewContext(e, junk) ==
  [ ei |-> e, stack |-> <<>>, index |-> -1, handled |-> 0, junk |-> junk,
    failed |-> FALSE, opened |-> 0, oobRead |-> FALSE, started |-> {} ]

\* ctx->stack[sp] for sp = top - 1 - up, or "" below the stack
yxml_parent(x, up) ==
  LET sp == Len(x.stack) - 1 - up
  IN  IF sp >= 0 THEN x.stack[sp + 1] ELSE ""

yxml_strequ(s0, s1) == s0 = s1

\* *ptr[0], the first byte a slot points at
SlotFirst(x, ptr) ==
  CASE ptr.k = "lit" -> 0
    [] ptr.k = "arena" /\ ptr.off < ArenaSize -> x.ei.strings[ptr.off + 1]
    [] OTHER -> x.junk

isspace(c) == c = 32 \/ (c >= 9 /\ c <= 13)

RECURSIVE SkipSpace(_)
\* while (isspace(*p)) p++;
SkipSpace(p) == IF p # <<>> /\ isspace(Head(p)) THEN SkipSpace(Tail(p)) ELSE p

\* the if conditions of the loop body of yxml_element_start for rule i:
\* the name matches the top or the up-th ancestor, and the required parent
\* is on the stack below the top
RuleMatches(x, i) ==
  LET rule == npv[i + 1]
  IN  /\ \/ yxml_strequ(yxml_parent(x, rule.up), rule.n)
         \/ yxml_strequ(yxml_parent(x, 0), rule.n)
      /\ \/ rule.p = ""
         \/ \E q \in 0..(Len(x.stack) - 2) : yxml_strequ(x.stack[q + 1], rule.p)

\* the body of the loop for the rule i that matches
StartCapture(x, i) ==
  LET rule == npv[i + 1]
      slot == x.ei.xmp[rule.v]
  IN  IF ~rule.append \/ slot.k = "null" \/ SlotFirst(x, slot) = 0 THEN
        [x EXCEPT !.ei.next = @ + 1,
                  !.ei.xmp[rule.v] = ArenaPtr(x.ei.next + 1, x.ei.call),
                  !.oobRead = @ \/ (rule.append /\ slot.k = "arena" /\ slot.off >= ArenaSize),
                  !.started = @ \cup {rule.v},
                  !.index = i]
      ELSE IF x.ei.next + 3 >= ArenaSize THEN
        [x EXCEPT !.ei.not_enough_memory = TRUE]
      ELSE
        [x EXCEPT !.ei = [ArenaCopy(x.ei, x.ei.next, <<0, 0>>) EXCEPT !.next = @ + 1],
                  !.started = @ \cup {rule.v},
                  !.index = i]

\* for (i = 0; i < npv_count && index < 0; i++) { ... } of yxml_element_start:
\* the rules before the first match change nothing, the first match ends
\* the loop (index >= 0, or break)
ElementStartScan(x, i) ==
  LET matches == { j \in i..(npv_count - 1) : RuleMatches(x, j) }
  IN  IF x.index >= 0 \/ matches = {} THEN x
      ELSE StartCapture(x, CHOOSE j \in matches : \A k \in matches : j <= k)

yxml_element_start(x, elem) ==
  IF x.ei.not_enough_memory \/ Len(x.stack) >= StackDepth
    THEN [x EXCEPT !.ei.not_enough_memory = TRUE]
    ELSE ElementStartScan([x EXCEPT !.stack = Append(@, elem)], 0)

yxml_content(x, data) ==
  IF ~x.ei.not_enough_memory /\ x.index >= 0 THEN
    LET inArena == x.ei.next >= 0 /\ x.ei.next < ArenaSize
        first == IF inArena THEN x.ei.strings[x.ei.next + 1] ELSE x.junk
        p == IF first = 0 THEN SkipSpace(data) ELSE data
        k == Len(p)
        e1 == IF x.ei.next + k + 1 >= ArenaSize
                THEN [x.ei EXCEPT !.not_enough_memory = TRUE] ELSE x.ei
        e2 == ArenaCopy(e1, e1.next, p \o <<0>>)
    IN  [x EXCEPT !.ei = [e2 EXCEPT !.next = @ + k],
                  !.oobRead = @ \/ ~inArena]
  ELSE x

yxml_element_end(x) ==
  IF ~x.ei.not_enough_memory THEN
    LET i == x.index
        x1 == IF i >= 0
                THEN [x EXCEPT !.index = IF yxml_strequ(yxml_parent(x, 0), npv[i + 1].n)
                                           THEN -1 ELSE @,
                               !.ei.next = @ + 1]
                ELSE x
    IN  [x1 EXCEPT !.stack = SubSeq(@, 1, Len(@) - 1)]
  ELSE x

yxml_xmp(x, t) ==
  CASE t.r = "ELEMSTART" -> yxml_element_start(x, t.elem)
    [] t.r = "CONTENT" -> yxml_content(x, t.data)
    [] t.r = "ELEMEND" -> yxml_element_end(x)
    [] OTHER -> x

RECURSIVE XmpLoop(_, _, _)
\* for (i = 0; i < bytes && !not_enough_memory; i++) {
\*     r = yxml_parse(xml[i]); if (r >= 0) yxml_xmp(r); else break; }
XmpLoop(x, xml, i) ==
  IF ~(i < Len(xml) /\ ~x.ei.not_enough_memory) THEN x
  ELSE LET t == xml[i + 1]
           x1 == [x EXCEPT !.handled = @ + 1,
                           !.opened = @ + (IF t.r = "ELEMSTART" THEN 1 ELSE 0)]
       IN  IF t.r = "ESYN" THEN [x1 EXCEPT !.failed = TRUE]
           ELSE XmpLoop(yxml_xmp(x1, t), xml, i + 1)

RECURSIVE Depth(_, _)
\* the number of elements left open by the first n tokens of a document
Depth(xml, n) ==
  IF n = 0 THEN 0
  ELSE Depth(xml, n - 1) + (CASE xml[n].r = "ELEMSTART" -> 1
                              [] xml[n].r = "ELEMEND" -> -1
                              [] OTHER -> 0)

\* yxml_eof: YXML_OK exactly when the bytes given to the tokenizer make a
\* complete document (no error, a root element, every element closed)
yxml_eof(x, xml) ==
  ~x.failed /\ x.opened > 0 /\ Depth(xml, x.handled) = 0

\* The end of parse_xmp_xml, x the context the loop left behind: the null
\* slots become the literal "\0\0", and r = yxml_eof decides the result.
\* dbg tells whether the build keeps assert(), which stops the process
\* when r is not YXML_OK (crash).
XmpFinish(x, r, dbg) ==
  [ ei |-> [x.ei EXCEPT !.xmp = [f \in XmpSlots |->
                                   IF x.ei.xmp[f].k = "null" THEN LitPtr
                                   ELSE x.ei.xmp[f]]],
    handled |-> x.handled, oobRead |-> x.oobRead, started |-> x.started,
    crash |-> dbg /\ ~r,
    ret |-> IF r THEN EXIF_PARSE_SUCCESS ELSE EXIF_PARSE_CORRUPT_DATA ]

XmpEof(x, xml, dbg) == XmpFinish(x, yxml_eof(x, xml), dbg)

parse_xmp_xml(e, xml, junk, dbg) ==
  XmpEof(XmpLoop(NewContext([e EXCEPT !.not_enough_memory = FALSE], junk), xml, 0),
         xml, dbg)

\* buf is the segment: bytes, then the tokenizer's view xml of the bytes
\* that follow them.  len = Len(bytes) + Len(xml).
parse_xmp(e, bytes, xml, junk, dbg) ==
  LET len == Len(bytes) + Len(xml)
      none == [ei |-> e, handled |-> 0, oobRead |-> FALSE, started |-> {},
               crash |-> FALSE]
  IN  IF len < 29 THEN none @@ [ret |-> EXIF_PARSE_ABSENT_DATA]
      ELSE IF Len(bytes) < 29 \/ SubSeq(bytes, 1, 29) # XmpPreamble
        THEN none @@ [ret |-> EXIF_PARSE_ABSENT_DATA]
      ELSE IF 29 >= len THEN none @@ [ret |-> EXIF_PARSE_CORRUPT_DATA]
      ELSE parse_xmp_xml(e, xml, junk, dbg)

(***************************************************************************)
(* Inputs.  An APP1 payload is [bytes, xml]: the bytes of the segment, and *)
(* for an XMP packet the tokenizer's view of the bytes after the preamble. *)
(***************************************************************************)
W16(intel, x) ==
  IF intel THEN <<x % 256, (x \div 256) % 256>>
  ELSE <<(x \div 256) % 256, x % 256>>
W32(intel, x) ==
  IF intel
    THEN <<x % 256, (x \div 256) % 256, (x \div 65536) % 256, (x \div 16777216) % 256>>
    ELSE <<(x \div 16777216) % 256, (x \div 65536) % 256, (x \div 256) % 256, x % 256>>

\* one 12-byte directory entry; val is its 4-byte value field
Entry(intel, tag, format, length, val) ==
  W16(intel, tag) \o W16(intel, format) \o W32(intel, length) \o val

\* "Exif\0\0", the TIFF header with IFD0 at offset 8, then body
TiffSegment(intel, body) ==
  ExifPreamble \o (IF intel THEN <<73, 73>> ELSE <<77, 77>>)
    \o W16(intel, 42) \o W32(intel, 8) \o body

ExifPayload(intel, body) == [bytes |-> TiffSegment(intel, body), xml |-> <<>>]

XmpPayload(xml) == [bytes |-> XmpPreamble, xml |-> xml]

PayloadLen(p) == Len(p.bytes) + Len(p.xml)

\* IFD0 = { GPS pointer }, GPS IFD = { LatitudeRef, Latitude 10 30' 0",
\* LongitudeRef, Longitude 20 15' 36", AltitudeRef, Altitude 100 }, the
\* rationals after the directory
SegGpsFix(latRef, lonRef, altRef) ==
  ExifPayload(FALSE,
    W16(FALSE, 1)
      \o Entry(FALSE, TAG_GPS_IFD_POINTER, 4, 1, W32(FALSE, 26))
      \o W32(FALSE, 0)
      \o W16(FALSE, 6)
      \o Entry(FALSE, 1, 2, 2, <<latRef, 0, 0, 0>>)
      \o Entry(FALSE, 2, 5, 3, W32(FALSE, 104))
      \o Entry(FALSE, 3, 2, 2, <<lonRef, 0, 0, 0>>)
      \o Entry(FALSE, 4, 5, 3, W32(FALSE, 128))
      \o Entry(FALSE, 5, 1, 1, <<altRef, 0, 0, 0>>)
      \o Entry(FALSE, 6, 5, 1, W32(FALSE, 152))
      \o W32(FALSE, 0)
      \o W32(FALSE, 10) \o W32(FALSE, 1) \o W32(FALSE, 30) \o W32(FALSE, 1)
      \o W32(FALSE, 0) \o W32(FALSE, 1)
      \o W32(FALSE, 20) \o W32(FALSE, 1) \o W32(FALSE, 15) \o W32(FALSE, 1)
      \o W32(FALSE, 36) \o W32(FALSE, 1)
      \o W32(FALSE, 100) \o W32(FALSE, 1))

\* IFD0 = { GPS pointer }, GPS IFD = { Altitude, one rational whose offset
\* field holds the four bytes off }, then the rational 100/1 at TIFF
\* offset 44; the TIFF part of the buffer is 52 bytes
SegAltitude(off) ==
  ExifPayload(FALSE,
    W16(FALSE, 1)
      \o Entry(FALSE, TAG_GPS_IFD_POINTER, 4, 1, W32(FALSE, 26))
      \o W32(FALSE, 0)
      \o W16(FALSE, 1)
      \o Entry(FALSE, 6, 5, 1, off)
      \o W32(FALSE, 0)
      \o W32(FALSE, 100) \o W32(FALSE, 1))

\* offset fields of the Altitude entry: the rational in the buffer, its
\* second half after the buffer, all of it after the buffer, and an offset
\* of the upper half of the 32-bit range
AltitudeOffsets ==
  { W32(FALSE, 44), W32(FALSE, 48), W32(FALSE, 4096), <<255, 255, 255, 240>> }

\* append_exif_description (photos.c): the JPEG data with an APP1 segment
\* after its SOI; the segment is an IFD0 of two string entries, 0x9003 with
\* the 19 characters of date and 0x010E with desc.  The length field is
\* out - app1, counted from the marker.
append_exif_description(data, date, desc) ==
  LET datetime_original_len == Len(date) + 1
      image_description_len == Len(desc) + 1
      body ==
        ExifPreamble \o <<77, 77, 0, 42, 0, 0, 0, 8>>
          \o <<0, 2>>
          \o <<144, 3, 0, 2, 0, 0, 0, 20>> \o W32(FALSE, 34)
          \o <<1, 14, 0, 2>> \o W32(FALSE, image_description_len)
          \o (IF image_description_len < 4
                THEN desc \o [i \in 1..(4 - Len(desc)) |-> 0]
                ELSE W32(FALSE, 34 + datetime_original_len))
          \o date \o <<0>>
          \o (IF image_description_len < 4 THEN <<>> ELSE desc \o <<0>>)
          \o W32(FALSE, 0)
      app_len == 4 + Len(body)
  IN  SubSeq(data, 1, 2) \o <<255, 225>> \o W16(FALSE, app_len) \o body
        \o SubSeq(data, 3, Len(data))

\* what the scanner takes for the payload of the first segment of a file:
\* section_bytes - 2 bytes after the length field
FirstPayload(file) ==
  [bytes |-> SubSeq(file, 7, 4 + parse16(SubSeq(file, 5, 6), FALSE)),
   xml |-> <<>>]

\* a JPEG without metadata (SOI, an empty DQT, EOI), "2023:06:19 15:30:00",
\* and descriptions of 1 to 4 characters
Extra ==
  [ data |-> <<255, 216, 255, 219, 0, 2, 255, 217>>,
    DateTimeOriginal |-> <<50, 48, 50, 51, 58, 48, 54, 58, 49, 57, 32,
                           49, 53, 58, 51, 48, 58, 48, 48>>,
    ImageDescription |-> { <<97>>, <<97, 98>>, <<97, 98, 99>>, <<97, 98, 99, 100>> } ]

SegDescription(desc) ==
  FirstPayload(append_exif_description(Extra.data, Extra.DateTimeOriginal, desc))

\* IFD0 = { Make, MakerNote }: the MakerNote entry (undefined, 86 bytes)
\* refers to a directory of 7 entries right after IFD0: tag 1 = "DJI",
\* then tags 3, 4, 5, 9, 10, 11 as floats 1.0, 2.0, 0.5, 4.0, 8.0, -2.0
SegMakerNote(make) ==
  ExifPayload(TRUE,
    W16(TRUE, 2)
      \o Entry(TRUE, TAG_MAKE, 2, 4, make)
      \o Entry(TRUE, TAG_MAKER_NOTE, 7, 86, W32(TRUE, 38))
      \o W32(TRUE, 0)
      \o W16(TRUE, 7)
      \o Entry(TRUE, 1, 2, 4, DJI \o <<0>>)
      \o Entry(TRUE, 3, 11, 1, <<0, 0, 128, 63>>)
      \o Entry(TRUE, 4, 11, 1, <<0, 0, 0, 64>>)
      \o Entry(TRUE, 5, 11, 1, <<0, 0, 0, 63>>)
      \o Entry(TRUE, 9, 11, 1, <<0, 0, 128, 64>>)
      \o Entry(TRUE, 10, 11, 1, <<0, 0, 0, 65>>)
      \o Entry(TRUE, 11, 11, 1, <<0, 0, 0, 192>>))

\* IFD0 = { Make, MakerNote, Orientation 1 } at buffer offsets 16, 28 and
\* 40: the MakerNote entry (undefined, length declared) refers to the
\* directory of SegMakerNote, right after IFD0
SegMakerNoteThen(make, length) ==
  ExifPayload(TRUE,
    W16(TRUE, 3)
      \o Entry(TRUE, TAG_MAKE, 2, 4, make)
      \o Entry(TRUE, TAG_MAKER_NOTE, 7, length, W32(TRUE, 50))
      \o Entry(TRUE, TAG_ORIENTATION, 3, 1, <<1, 0, 0, 0>>)
      \o W32(TRUE, 0)
      \o W16(TRUE, 7)
      \o Entry(TRUE, 1, 2, 4, DJI \o <<0>>)
      \o Entry(TRUE, 3, 11, 1, <<0, 0, 128, 63>>)
      \o Entry(TRUE, 4, 11, 1, <<0, 0, 0, 64>>)
      \o Entry(TRUE, 5, 11, 1, <<0, 0, 0, 63>>)
      \o Entry(TRUE, 9, 11, 1, <<0, 0, 128, 64>>)
      \o Entry(TRUE, 10, 11, 1, <<0, 0, 0, 65>>)
      \o Entry(TRUE, 11, 11, 1, <<0, 0, 0, 192>>))

\* one character reference: the tokenizer delivers its 4 UTF-8 bytes in one
\* content event, at the last byte of the reference
CharRef == << [r |-> "OK"], [r |-> "OK"], [r |-> "OK"], [r |-> "OK"], [r |-> "OK"],
              [r |-> "CONTENT", data |-> <<240, 159, 152, 128>>] >>

\* the n-th rdf:li of a bag, one byte of text, preceded by a blank
BagItem(c) ==
  << [r |-> "CONTENT", data |-> <<32>>],
     [r |-> "ELEMSTART", elem |-> "rdf:li"],
     [r |-> "CONTENT", data |-> <<c>>],
     [r |-> "ELEMEND"] >>

\* the item texts of Input.Subject
SubjectItems == << <<97>>, <<98>>, <<99>> >>

\* <Iptc4xmpExt:LocationCreated> <Iptc4xmpExt:City>A</Iptc4xmpExt:City>
\* </Iptc4xmpExt:LocationCreated>
LocationCreatedXml ==
  << [r |-> "ELEMSTART", elem |-> "Iptc4xmpExt:LocationCreated"],
     [r |-> "CONTENT", data |-> <<32>>],
     [r |-> "ELEMSTART", elem |-> "Iptc4xmpExt:City"],
     [r |-> "CONTENT", data |-> <<65>>],
     [r |-> "ELEMEND"],
     [r |-> "ELEMEND"] >>

\* <Iptc4xmpExt:LocationShown><rdf:Bag><rdf:li>
\* <Iptc4xmpExt:City>B</Iptc4xmpExt:City> </rdf:li></rdf:Bag>
\* </Iptc4xmpExt:LocationShown>
LocationShownXml ==
  << [r |-> "ELEMSTART", elem |-> "Iptc4xmpExt:LocationShown"],
     [r |-> "ELEMSTART", elem |-> "rdf:Bag"],
     [r |-> "ELEMSTART", elem |-> "rdf:li"],
     [r |-> "ELEMSTART", elem |-> "Iptc4xmpExt:City"],
     [r |-> "CONTENT", data |-> <<66>>],
     [r |-> "ELEMEND"],
     [r |-> "CONTENT", data |-> <<32>>],
     [r |-> "ELEMEND"],
     [r |-> "ELEMEND"],
     [r |-> "ELEMEND"] >>

\* the APP1 payloads given to the scanner
Input ==
  [
    \* IFD0 = { Make "Hi", Artist "Al" }, both stored inline
    Make |->
      ExifPayload(TRUE,
        W16(TRUE, 2)
          \o Entry(TRUE, TAG_MAKE, 2, 3, <<72, 105, 0, 0>>)
          \o Entry(TRUE, TAG_ARTIST, 2, 3, <<65, 108, 0, 0>>)
          \o W32(TRUE, 0)),

    \* IFD0 = { GPS pointer }, GPS IFD = { LatitudeRef 'S', TimeStamp }, the
    \* three rationals of the time stamp at TIFF offset 0
    Gps |->
      ExifPayload(FALSE,
        W16(FALSE, 1)
          \o Entry(FALSE, TAG_GPS_IFD_POINTER, 4, 1, W32(FALSE, 26))
          \o W32(FALSE, 0)
          \o W16(FALSE, 2)
          \o Entry(FALSE, 1, 2, 2, <<83, 0, 0, 0>>)
          \o Entry(FALSE, 7, 5, 3, W32(FALSE, 0))
          \o W32(FALSE, 0)),

    \* 'S', 'E', below sea level
    GpsSouth |-> SegGpsFix(83, 69, 1),

    \* 'N', 'W', above sea level
    GpsWest |-> SegGpsFix(78, 87, 0),

    \* IFD0 = { Orientation 1 }
    Tiny |->
      ExifPayload(FALSE,
        W16(FALSE, 1)
          \o Entry(FALSE, TAG_ORIENTATION, 3, 1, <<0, 1, 0, 0>>)
          \o W32(FALSE, 0)),

    \* IFD0 = { Make "Hi" }, and 2 bytes where the 4-byte link to the next
    \* IFD belongs
    NoLink |->
      ExifPayload(TRUE,
        W16(TRUE, 1)
          \o Entry(TRUE, TAG_MAKE, 2, 3, <<72, 105, 0, 0>>)
          \o <<0, 0>>),

    \* IFD0 = { GPS pointer 0xFFFFFFF6 }: header start + offset = 0xFFFFFFFC
    WrapGps |->
      ExifPayload(FALSE,
        W16(FALSE, 1)
          \o Entry(FALSE, TAG_GPS_IFD_POINTER, 4, 1, <<255, 255, 255, 246>>)
          \o W32(FALSE, 0)),

    \* IFD0 = { Exif pointer 0xFFFFFFF6 }
    WrapExif |->
      ExifPayload(FALSE,
        W16(FALSE, 1)
          \o Entry(FALSE, TAG_EXIF_IFD_POINTER, 4, 1, <<255, 255, 255, 246>>)
          \o W32(FALSE, 0)),

    \* IFD0 = { GPS pointer 4096 }, the buffer is 32 bytes
    FarGps |->
      ExifPayload(FALSE,
        W16(FALSE, 1)
          \o Entry(FALSE, TAG_GPS_IFD_POINTER, 4, 1, W32(FALSE, 4096))
          \o W32(FALSE, 0)),

    \* IFD0 = { Software: 12 characters at TIFF offset 4096, Copyright "Hi" },
    \* the buffer is 44 bytes
    BadSpan |->
      ExifPayload(TRUE,
        W16(TRUE, 2)
          \o Entry(TRUE, TAG_SOFTWARE, 2, 12, W32(TRUE, 4096))
          \o Entry(TRUE, TAG_COPYRIGHT, 2, 3, <<72, 105, 0, 0>>)
          \o W32(TRUE, 0)),

    \* IFD0 = { Software: 12 characters at TIFF offset 0xFFFFFFF6 }
    WrapSpan |->
      ExifPayload(FALSE,
        W16(FALSE, 1)
          \o Entry(FALSE, TAG_SOFTWARE, 2, 12, <<255, 255, 255, 246>>)
          \o W32(FALSE, 0)),

    \* IFD0 = { ShutterSpeedValue and BrightnessValue, each with format 3
    \* (short) where a rational is accepted, Orientation 1 }
    BadFormat |->
      ExifPayload(FALSE,
        W16(FALSE, 3)
          \o Entry(FALSE, TAG_SHUTTERSPEED, 3, 1, <<0, 5, 0, 0>>)
          \o Entry(FALSE, TAG_BRIGHTNESS_VALUE, 3, 1, <<0, 5, 0, 0>>)
          \o Entry(FALSE, TAG_ORIENTATION, 3, 1, <<0, 1, 0, 0>>)
          \o W32(FALSE, 0)),

    \* the vendor check fails
    LgThen |-> SegMakerNoteThen(<<76, 71, 0, 0>>, 86),

    \* Make "DJI", the directory is rejected: 2 + 12 * 37500 > 86
    DjiThen |-> SegMakerNoteThen(DJI \o <<0>>, 86),

    \* Make "DJI", declared length 2 + 12 * 37500: the directory is walked
    DjiWalk |-> SegMakerNoteThen(DJI \o <<0>>, 450002),

    \* <xmp:CreatorTool> A b</xmp:CreatorTool>, one content event per byte
    Spaced |->
      XmpPayload(<< [r |-> "ELEMSTART", elem |-> "xmp:CreatorTool"],
                    [r |-> "CONTENT", data |-> <<32>>],
                    [r |-> "CONTENT", data |-> <<65>>],
                    [r |-> "CONTENT", data |-> <<32>>],
                    [r |-> "CONTENT", data |-> <<98>>],
                    [r |-> "ELEMEND"] >>),

    \* <rdf:Description> <dc:subject>a</dc:subject> <dc:subject>b</dc:subject>
    \* </rdf:Description>
    TwoSubjects |->
      XmpPayload(<< [r |-> "ELEMSTART", elem |-> "rdf:Description"],
                    [r |-> "ELEMSTART", elem |-> "dc:subject"],
                    [r |-> "CONTENT", data |-> <<97>>],
                    [r |-> "ELEMEND"],
                    [r |-> "ELEMSTART", elem |-> "dc:subject"],
                    [r |-> "CONTENT", data |-> <<98>>],
                    [r |-> "ELEMEND"],
                    [r |-> "ELEMEND"] >>),

    \* <aux:Lens>L and the end of the packet: the document is not complete
    XmpOpen |->
      XmpPayload(<< [r |-> "ELEMSTART", elem |-> "aux:Lens"],
                    [r |-> "CONTENT", data |-> <<76>>] >>),

    \* IFD0 = { 0x02bc with format 7 (undefined), Orientation 1 }
    EmbeddedXmp |->
      ExifPayload(FALSE,
        W16(FALSE, 2)
          \o Entry(FALSE, 700, 7, 4, <<60, 120, 62, 0>>)
          \o Entry(FALSE, TAG_ORIENTATION, 3, 1, <<0, 1, 0, 0>>)
          \o W32(FALSE, 0)),

    \* the same with format 2 (ASCII) for 0x02bc
    EmbeddedXmpAscii |->
      ExifPayload(FALSE,
        W16(FALSE, 2)
          \o Entry(FALSE, 700, 2, 4, <<60, 120, 62, 0>>)
          \o Entry(FALSE, TAG_ORIENTATION, 3, 1, <<0, 1, 0, 0>>)
          \o W32(FALSE, 0)),

    \* IFD0 = { SubjectArea: 5 shorts 1, 2, 3, 4, 5 at TIFF offset 26 }
    SubjectArea5 |->
      ExifPayload(FALSE,
        W16(FALSE, 1)
          \o Entry(FALSE, TAG_SUBJECT_AREA, 3, 5, W32(FALSE, 26))
          \o W32(FALSE, 0)
          \o W16(FALSE, 1) \o W16(FALSE, 2) \o W16(FALSE, 3) \o W16(FALSE, 4)
          \o W16(FALSE, 5)),

    \* IFD0 = { SubjectArea: 4 shorts 1, 2, 3, 4 at TIFF offset 26 }
    SubjectArea4 |->
      ExifPayload(FALSE,
        W16(FALSE, 1)
          \o Entry(FALSE, TAG_SUBJECT_AREA, 3, 4, W32(FALSE, 26))
          \o W32(FALSE, 0)
          \o W16(FALSE, 1) \o W16(FALSE, 2) \o W16(FALSE, 3) \o W16(FALSE, 4)),

    \* IFD0 declares 5 entries and holds 1
    TruncImage |->
      ExifPayload(TRUE,
        W16(TRUE, 5)
          \o Entry(TRUE, TAG_MAKE, 2, 3, <<72, 105, 0, 0>>)
          \o W32(TRUE, 0)),

    \* IFD0 = { Make "Hi", Exif pointer }, the Exif IFD declares 3 entries and
    \* holds none
    TruncExif |->
      ExifPayload(TRUE,
        W16(TRUE, 2)
          \o Entry(TRUE, TAG_MAKE, 2, 3, <<72, 105, 0, 0>>)
          \o Entry(TRUE, TAG_EXIF_IFD_POINTER, 4, 1, W32(TRUE, 38))
          \o W32(TRUE, 0)
          \o W16(TRUE, 3) \o <<0, 0>>),

    \* IFD0 = { Orientation 1, GPS pointer }, the GPS IFD declares 2 entries
    \* and holds none
    TruncGps |->
      ExifPayload(FALSE,
        W16(FALSE, 2)
          \o Entry(FALSE, TAG_ORIENTATION, 3, 1, <<0, 1, 0, 0>>)
          \o Entry(FALSE, TAG_GPS_IFD_POINTER, 4, 1, W32(FALSE, 38))
          \o W32(FALSE, 0)
          \o W16(FALSE, 2) \o <<0, 0>>),

    \* IFD0 = { Make, Model, Software }, each the same 12-byte string stored at
    \* TIFF offset 50
    Strings |->
      ExifPayload(TRUE,
        W16(TRUE, 3)
          \o Entry(TRUE, TAG_MAKE, 2, 12, W32(TRUE, 50))
          \o Entry(TRUE, TAG_MODEL, 2, 12, W32(TRUE, 50))
          \o Entry(TRUE, TAG_SOFTWARE, 2, 12, W32(TRUE, 50))
          \o W32(TRUE, 0)
          \o <<65, 66, 67, 68, 69, 70, 71, 72, 73, 74, 75, 0>>),

    Dji |->
    SegMakerNote(DJI \o <<0>>),

    \* the same bytes with Make "LG"
    Lg |->
    SegMakerNote(<<76, 71, 0, 0>>),

    \* "Exif\0\0" followed by a byte-order mark that is neither II nor MM
    ByteAlign |->
      [bytes |-> ExifPreamble \o <<88, 88, 0, 42, 0, 0, 0, 8>>, xml |-> <<>>],

    \* "Exif\0\0", "II", the number 43 where 0x002A belongs, then a sound
    \* IFD0 = { Make "Hi" } at offset 8
    BadMagic |->
      [bytes |-> ExifPreamble \o <<73, 73>> \o W16(TRUE, 43) \o W32(TRUE, 8)
                   \o W16(TRUE, 1)
                   \o Entry(TRUE, TAG_MAKE, 2, 3, <<72, 105, 0, 0>>)
                   \o W32(TRUE, 0),
       xml |-> <<>>],

    \* neither an EXIF nor an XMP packet
    Other |->
    [bytes |-> <<74, 70, 88, 88, 0, 1, 2>>, xml |-> <<>>],

    \* <xmp:CreatorTool>Ab</xmp:CreatorTool>
    Xmp |->
      XmpPayload(<< [r |-> "OK"],
                    [r |-> "ELEMSTART", elem |-> "xmp:CreatorTool"],
                    [r |-> "CONTENT", data |-> <<65>>],
                    [r |-> "CONTENT", data |-> <<98>>],
                    [r |-> "OK"],
                    [r |-> "ELEMEND"] >>),

    \* <aux:Lens> opened and followed by a byte the tokenizer rejects
    XmpSyntax |->
      XmpPayload(<< [r |-> "ELEMSTART", elem |-> "aux:Lens"],
                    [r |-> "CONTENT", data |-> <<76>>],
                    [r |-> "ESYN"] >>),

    \* <xmp:Rating> with five character references as content
    XmpRefs |->
      XmpPayload(<< [r |-> "ELEMSTART", elem |-> "xmp:Rating"] >>
                 \o CharRef \o CharRef \o CharRef \o CharRef \o CharRef
                 \o << [r |-> "ELEMEND"] >>),

    \* <dc:subject> <rdf:Bag> <rdf:li>a</rdf:li> <rdf:li>b</rdf:li>
    \* <rdf:li>c</rdf:li> </rdf:Bag> </dc:subject>
    Subject |->
      XmpPayload(<< [r |-> "ELEMSTART", elem |-> "dc:subject"],
                    [r |-> "CONTENT", data |-> <<32>>],
                    [r |-> "ELEMSTART", elem |-> "rdf:Bag"] >>
                 \o BagItem(97) \o BagItem(98) \o BagItem(99)
                 \o << [r |-> "CONTENT", data |-> <<32>>],
                       [r |-> "ELEMEND"],
                       [r |-> "CONTENT", data |-> <<32>>],
                       [r |-> "ELEMEND"] >>),

    \* both locations inside one rdf:Description, in either order
    CreatedShown |->
      XmpPayload(<< [r |-> "ELEMSTART", elem |-> "rdf:Description"] >>
                 \o LocationCreatedXml \o LocationShownXml
                 \o << [r |-> "ELEMEND"] >>),

    ShownCreated |->
      XmpPayload(<< [r |-> "ELEMSTART", elem |-> "rdf:Description"] >>
                 \o LocationShownXml \o LocationCreatedXml
                 \o << [r |-> "ELEMEND"] >>)
  ]

Payloads ==
  { SegDescription(desc) : desc \in Extra.ImageDescription } \cup
  { SegAltitude(off) : off \in AltitudeOffsets } \cup
  { Input.WrapGps, Input.WrapExif, Input.FarGps,
    Input.BadSpan, Input.WrapSpan,
    Input.BadFormat,
    Input.LgThen, Input.DjiThen, Input.DjiWalk,
    Input.Spaced,
    Input.TwoSubjects,
    Input.XmpOpen,
    Input.EmbeddedXmp, Input.EmbeddedXmpAscii,
    Input.SubjectArea5, Input.SubjectArea4,
    Input.Tiny, Input.NoLink, Input.GpsSouth, Input.GpsWest, Input.BadMagic, Input.CreatedShown, Input.ShownCreated, Input.Subject, Input.Make, Input.Gps, Input.TruncImage, Input.TruncExif, Input.TruncGps, Input.Strings,
    Input.ByteAlign, Input.Other, Input.Xmp, Input.XmpSyntax, Input.XmpRefs, Input.Dji, Input.Lg }

\* values an out-of-range read may produce
JunkBytes == {0, 255}

\* second bytes of a marker the scanner is given
Markers ==
  { 0, 1, JM_START, JM_RST0, JM_RST7, JM_SOI, JM_SOS, JM_EOI, JM_APP1,
    JM_APP0, JM_APP13, JM_APP14, JM_SOF0, JM_DHT, JM_DQT, JM_DRI }

\* bytes of a length field of a skipped section
LengthBytes == {0, 2, 3}

(***************************************************************************)
(* Segment scanner: exif_parse_from_stream, one action per stream read.    *)
(*                                                                         *)
(* The stream is the caller's exif_stream_t.  Its content is drawn as it   *)
(* is read: a get or skip either delivers the bytes asked for or signals   *)
(* the end of the stream, and after the end every read fails (the buffer   *)
(* stream of exif_parse_from_memory).                                      *)
(*                                                                         *)
(*   pc        position in exif_parse_from_stream: "idle" before the first *)
(*             call, "loop" at the head of for(;;), "fill" in the fill     *)
(*             byte loop, "switch" at switch (marker), "ret" returned,     *)
(*             "crash" the process has stopped                             *)
(*   ei        the caller's Record                                         *)
(*   apps1     the local apps1                                             *)
(*   marker    the local marker                                            *)
(*   result    the value returned (NoResult while running)                 *)
(*   calls     number of top-level calls started                           *)
(*   segs      number of APP1 payloads handed to the decoders              *)
(*   ended     the stream has signalled its end during this call           *)
(*   left      end - it of the buffer stream of exif_parse_from_memory,    *)
(*             NoBuffer for a stream the caller brought (exif_from_stream) *)
(* History of the current call:                                            *)
(*   soi       the SOI check passed                                        *)
(*   decoded   the kinds ("EXIF", "XMP") decoded successfully              *)
(*   shortLen  a section length <= 2 was met                               *)
(*   seg       what the decoders reported for the last APP1 payload        *)
(***************************************************************************)
VARIABLES pc, ei, apps1, marker, result, calls, segs, ended, left,
          soi, decoded, shortLen, seg

vars == <<pc, ei, apps1, marker, result, calls, segs, ended, left,
          soi, decoded, shortLen, seg>>

NoBuffer == -1

\* get(stream, n) of the buffer stream: it delivers (ok) exactly when
\* it + n <= end; a stream the caller brought decides by itself
Avail(l, n, ok) == l = NoBuffer \/ (ok <=> n <= l)

\* end - it after get has delivered n bytes
After(l, n) == IF l = NoBuffer THEN l ELSE l - n

NoResult == -1

NoSeg ==
  [ kind |-> "none", ret |-> NoResult, xmpret |-> NoResult, trunc |-> <<>>,
    visited |-> 0, path |-> <<>>, declared |-> 0, oobRead |-> FALSE,
    oobField |-> FALSE, oobWrite |-> FALSE,
    handled |-> 0, tokens |-> 0, mnote |-> "none", started |-> {},
    p |-> [bytes |-> <<>>, xml |-> <<>>] ]

\* apps1 & EXIF_FIELD_ALL ? EXIF_PARSE_SUCCESS : ret
ResultOr(a, ret) == IF a % 4 # 0 THEN EXIF_PARSE_SUCCESS ELSE ret

\* apps1 == EXIF_FIELD_ALL
AllFound(a) == a = EXIF_FIELD_ALL

\* apps1 | f, for a one-bit f
OrField(a, f) == IF (a \div f) % 2 = 1 THEN a ELSE a + f

\* section_bytes <= 2
TooShort(section_bytes) == section_bytes <= 2

InitScanner ==
  /\ pc = "idle"
  /\ ei = ZeroRecord
  /\ apps1 = 0
  /\ marker = 0
  /\ result = NoResult
  /\ calls = 0
  /\ segs = 0
  /\ ended = FALSE
  /\ soi = FALSE
  /\ decoded = {}
  /\ shortLen = FALSE
  /\ seg = NoSeg

\* the parses go through exif_from_stream
Init == InitScanner /\ left = NoBuffer

\* the parses go through exif_from_memory
InitMem == InitScanner /\ left = 0

Return(r) ==
  /\ pc' = "ret"
  /\ result' = r

\* exif_from_memory / exif_from_stream on the caller's Record with a new
\* stream: exif_clear, then the SOI check.
Call ==
  /\ pc \in {"idle", "ret"}
  /\ calls < MaxCalls
  /\ calls' = calls + 1
  /\ ei' = exif_clear([ei EXCEPT !.call = calls + 1, !.oob = FALSE])
  /\ decoded' = {}
  /\ shortLen' = FALSE
  /\ seg' = NoSeg
  /\ marker' = 0
  /\ \E bytes \in (IF left = NoBuffer THEN {NoBuffer} ELSE 0..MaxBytes) :
     \/ /\ ended' = TRUE                            \* get(2) == null
        /\ Avail(bytes, 2, FALSE)
        /\ left' = bytes
        /\ soi' = FALSE
        /\ apps1' = 0
        /\ Return(EXIF_PARSE_INVALID_JPEG)
     \/ \E b0 \in {0, JM_START}, b1 \in {JM_SOI, JM_EOI} :
          /\ ended' = FALSE
          /\ Avail(bytes, 2, TRUE)
          /\ left' = After(bytes, 2)
          /\ IF b0 # JM_START \/ b1 # JM_SOI
               THEN /\ soi' = FALSE
                    /\ apps1' = 0
                    /\ Return(EXIF_PARSE_INVALID_JPEG)
               ELSE /\ soi' = TRUE
                    /\ apps1' = ei'.Fields
                    /\ pc' = "loop"
                    /\ result' = NoResult
  /\ UNCHANGED segs

\* buf = get(2); the first byte must be JM_START
ReadMarker ==
  /\ pc = "loop"
  /\ \/ /\ ended' = TRUE                            \* get(2) == null
        /\ Avail(left, 2, FALSE)
        /\ Return(ResultOr(apps1, EXIF_PARSE_ABSENT_DATA))
        /\ UNCHANGED <<marker, left>>
     \/ /\ ~ended
        /\ Avail(left, 2, TRUE)
        /\ left' = After(left, 2)
        /\ \E b0 \in {0, JM_START}, b1 \in Markers :
             IF b0 # JM_START
               THEN /\ Return(ResultOr(apps1, EXIF_PARSE_ABSENT_DATA))
                    /\ UNCHANGED <<marker, ended>>
               ELSE /\ marker' = b1
                    /\ pc' = IF b1 = JM_START THEN "fill" ELSE "switch"
                    /\ UNCHANGED <<result, ended>>
  /\ UNCHANGED <<ei, apps1, calls, segs, soi, decoded, shortLen, seg>>

\* while ((marker = buf[0]) == JM_START && (buf = get(1)) != null);
Fill ==
  /\ pc = "fill"
  /\ \/ /\ ended' = TRUE                            \* get(1) == null
        /\ Avail(left, 1, FALSE)
        /\ pc' = "switch"
        /\ UNCHANGED <<marker, left>>
     \/ /\ ~ended
        /\ Avail(left, 1, TRUE)
        /\ left' = After(left, 1)
        /\ \E b \in Markers :
             /\ marker' = b
             /\ pc' = IF b = JM_START THEN "fill" ELSE "switch"
        /\ UNCHANGED ended
  /\ UNCHANGED <<ei, apps1, result, calls, segs, soi, decoded, shortLen, seg>>

\* case 0x00, 0x01, JM_START, JM_RST0 .. JM_RST7, JM_SOI: break
MarkerNoOp ==
  /\ pc = "switch"
  /\ marker \in {0, 1, JM_START, JM_SOI} \/ (marker >= JM_RST0 /\ marker <= JM_RST7)
  /\ pc' = "loop"
  /\ UNCHANGED <<ei, apps1, marker, result, calls, segs, ended, left, soi,
                 decoded, shortLen, seg>>

\* case JM_SOS, JM_EOI
MarkerTerminal ==
  /\ pc = "switch"
  /\ marker \in {JM_SOS, JM_EOI}
  /\ Return(ResultOr(apps1, EXIF_PARSE_ABSENT_DATA))
  /\ UNCHANGED <<ei, apps1, marker, calls, segs, ended, left, soi, decoded,
                 shortLen, seg>>

\* default (JM_APP14, JM_APP13, JM_SOF0, JM_DHT, JM_DQT, JM_DRI fall into
\* it): read the section length and skip the section
MarkerSkip ==
  /\ pc = "switch"
  /\ marker \notin {0, 1, JM_START, JM_SOI, JM_SOS, JM_EOI, JM_APP1}
  /\ ~(marker >= JM_RST0 /\ marker <= JM_RST7)
  /\ \/ /\ ended' = TRUE                            \* get(2) == null
        /\ Avail(left, 2, FALSE)
        /\ Return(ResultOr(apps1, EXIF_PARSE_INVALID_JPEG))
        /\ UNCHANGED <<shortLen, left>>
     \/ /\ ~ended
        /\ Avail(left, 2, TRUE)
        /\ \E hi \in LengthBytes, lo \in LengthBytes :
             LET section_bytes == parse16(<<hi, lo>>, FALSE)
             IN  IF TooShort(section_bytes)
                   THEN /\ shortLen' = TRUE
                        /\ left' = After(left, 2)
                        /\ Return(ResultOr(apps1, EXIF_PARSE_INVALID_JPEG))
                        /\ UNCHANGED ended
                   ELSE /\ UNCHANGED shortLen
                        /\ \/ /\ ended' = TRUE      \* !skip(section_bytes - 2)
                              /\ Avail(After(left, 2), section_bytes - 2, FALSE)
                              /\ left' = After(left, 2)
                              /\ Return(ResultOr(apps1, EXIF_PARSE_INVALID_JPEG))
                           \/ /\ Avail(After(left, 2), section_bytes - 2, TRUE)
                              /\ left' = After(After(left, 2), section_bytes - 2)
                              /\ pc' = "loop"
                              /\ UNCHANGED <<result, ended>>
  /\ UNCHANGED <<ei, apps1, marker, calls, segs, soi, decoded, seg>>

\* case JM_APP1, from ei->has_app1 = true on: the decoders run on the
\* payload p.  The result tells what the scanner does next: crash (the
\* process stopped inside a decoder), done (it returns result), or neither
\* (break, and around the loop again).  sx is what exif_parse_from_segment
\* left, r what the decoder named by kind returned, a1 the new apps1.
App1Outcome(a, a1, p, kind, sx, r) ==
  [ ei |-> r.ei, apps1 |-> a1, crash |-> r.crash,
    done |-> CASE r.crash -> FALSE
               [] r.ret = EXIF_PARSE_ABSENT_DATA -> FALSE
               [] r.ret = EXIF_PARSE_SUCCESS -> AllFound(a1)
               [] OTHER -> TRUE,
    result |-> IF r.ret = EXIF_PARSE_SUCCESS THEN EXIF_PARSE_SUCCESS
               ELSE ResultOr(a, r.ret),
    found |-> IF ~r.crash /\ r.ret = EXIF_PARSE_SUCCESS
                THEN {IF kind = "xmp" THEN "XMP" ELSE "EXIF"} ELSE {},
    seg |-> [ kind |-> kind,
              ret |-> sx.ret,
              xmpret |-> IF kind = "xmp" THEN r.ret ELSE NoResult,
              trunc |-> sx.trunc,
              visited |-> Len(sx.visited),
              path |-> sx.visited,
              declared |-> sx.declared,
              oobRead |-> sx.oobRead \/ r.oobRead,
              oobField |-> sx.oobField,
              oobWrite |-> r.ei.oob,
              handled |-> r.handled,
              started |-> r.started,
              tokens |-> Len(p.xml),
              mnote |-> sx.mnote,
              p |-> p ] ]

App1Found(a, p, kind, field, sx, r) ==
  App1Outcome(a,
              IF ~r.crash /\ r.ret = EXIF_PARSE_SUCCESS THEN OrField(a, field) ELSE a,
              p, kind, sx, r)

App1Segment(a, p, junk, dbg, sx) ==
  IF ~sx.crash /\ sx.ret = EXIF_PARSE_ABSENT_DATA
    THEN App1Found(a, p, "xmp", EXIF_FIELD_XMP, sx,
                   parse_xmp(sx.ei, p.bytes, p.xml, junk, dbg))
    ELSE App1Found(a, p, "exif", EXIF_FIELD_EXIF, sx,
                   [ei |-> sx.ei, handled |-> 0, oobRead |-> FALSE, started |-> {},
                    crash |-> sx.crash, ret |-> sx.ret])

App1Decode(e, a, p, junk, dbg) ==
  App1Segment(a, p, junk, dbg,
              exif_parse_from_segment([e EXCEPT !.has_app1 = TRUE, !.oob = FALSE],
                                      p.bytes, PayloadLen(p), junk))

\* case JM_APP1
MarkerApp1 ==
  /\ pc = "switch"
  /\ marker = JM_APP1
  /\ \/ /\ ended' = TRUE                            \* get(2) == null
        /\ Avail(left, 2, FALSE)
        /\ Return(ResultOr(apps1, EXIF_PARSE_INVALID_JPEG))
        /\ UNCHANGED <<ei, apps1, segs, decoded, shortLen, seg, left>>
     \/ /\ ~ended
        /\ Avail(left, 2, TRUE)
        /\ left' = After(left, 2)
        /\ \E n \in 0..2 :
             /\ TooShort(parse16(W16(FALSE, n), FALSE))
             /\ shortLen' = TRUE
             /\ Return(ResultOr(apps1, EXIF_PARSE_INVALID_JPEG))
        /\ UNCHANGED <<ei, apps1, segs, decoded, ended, seg>>
     \/ /\ ~ended
        /\ Avail(left, 2, TRUE)
        /\ left' = After(left, 2)
        /\ \E p \in Payloads :
             /\ ~TooShort(parse16(W16(FALSE, PayloadLen(p) + 2), FALSE))
             /\ Avail(After(left, 2), PayloadLen(p), FALSE)
             /\ ended' = TRUE                       \* get(section_bytes -= 2) == null
             /\ Return(ResultOr(apps1, EXIF_PARSE_INVALID_JPEG))
        /\ UNCHANGED <<ei, apps1, segs, decoded, shortLen, seg>>
     \/ /\ ~ended
        /\ segs < MaxSegments
        /\ Avail(left, 2, TRUE)
        /\ \E p \in Payloads, junk \in JunkBytes, dbg \in BOOLEAN :
             /\ ~TooShort(parse16(W16(FALSE, PayloadLen(p) + 2), FALSE))
             /\ Avail(After(left, 2), PayloadLen(p), TRUE)
             /\ left' = After(After(left, 2), PayloadLen(p))
             /\ \E d \in {App1Decode(ei, apps1, p, junk, dbg)} :
                  /\ ei' = d.ei
                  /\ apps1' = d.apps1
                  /\ seg' = [d.seg EXCEPT !.started = @ \cup seg.started]
                  /\ decoded' = decoded \cup d.found
                  /\ IF d.crash THEN pc' = "crash" /\ UNCHANGED result
                     ELSE IF d.done THEN Return(d.result)
                     ELSE pc' = "loop" /\ UNCHANGED result
        /\ segs' = segs + 1
        /\ UNCHANGED <<ended, shortLen>>
  /\ UNCHANGED <<marker, calls, soi>>

Next ==
  \/ Call
  \/ ReadMarker
  \/ Fill
  \/ MarkerNoOp
  \/ MarkerTerminal
  \/ MarkerSkip
  \/ MarkerApp1

Spec == Init /\ [][Next]_vars

\* The parses of exif_from_memory.  The program is sequential: whenever it
\* has a step to take it takes it.
SpecMem == InitMem /\ [][Next]_vars /\ WF_vars(Next)

(***************************************************************************)
(* Properties of the top-level parse.                                      *)
(***************************************************************************)

\* The Record a zero-initialised exif_info_t becomes by exif_clear.
FreshRecord == exif_clear(ZeroRecord)

\* C1: when the top-level parse has returned, the Fields bitmask of the
\* Record has the EXIF bit set exactly when an APP1 segment was decoded
\* successfully as EXIF during this call, and the XMP bit set exactly when
\* one was decoded successfully as XMP.
C1_FieldsIffDecoded ==
  pc = "ret" =>
    /\ ((ei.Fields \div EXIF_FIELD_EXIF) % 2 = 1) <=> ("EXIF" \in decoded)
    /\ ((ei.Fields \div EXIF_FIELD_XMP) % 2 = 1) <=> ("XMP" \in decoded)

\* C2: on every return after the SOI check has passed, the result is
\* Success exactly when at least one APP1 segment was decoded successfully
\* (as EXIF or as XMP) in this call.
C2_SuccessIffFound ==
  (pc = "ret" /\ soi) => ((result = EXIF_PARSE_SUCCESS) <=> (decoded # {}))

\* an EXIF segment was decoded, a later segment was corrupt, and the call
\* returned Success
C2_Witness ==
  /\ pc = "ret"
  /\ soi
  /\ decoded = {"EXIF"}
  /\ seg.kind = "exif"
  /\ seg.ret = EXIF_PARSE_CORRUPT_DATA
  /\ result = EXIF_PARSE_SUCCESS

\* C3: once both an EXIF and an XMP APP1 segment have been decoded
\* successfully, the call has returned Success: the scanner is at no
\* position from which it reads the stream again.
C3_ReturnsWhenBothFound ==
  (decoded = {"EXIF", "XMP"}) => (pc = "ret" /\ result = EXIF_PARSE_SUCCESS)

\* both kinds were decoded and the call returned with the stream not at
\* its end
C3_Witness ==
  /\ decoded = {"EXIF", "XMP"}
  /\ pc = "ret"
  /\ ~ended
  /\ segs = 2

\* C4 (as the code has it): InvalidJPEG is returned only when the SOI check
\* fails, or when nothing was found yet and either a stream get/skip
\* signalled the end or a section length of 2 or less was read.
C4_InvalidOnly ==
  (result = EXIF_PARSE_INVALID_JPEG) =>
    (~soi \/ ((ended \/ shortLen) /\ decoded = {}))

\* C4 as stated: InvalidJPEG is returned only when the SOI check fails or
\* a stream get/skip signalled the end before anything was found.
C4_Original ==
  (result = EXIF_PARSE_INVALID_JPEG) => (~soi \/ (ended /\ decoded = {}))

\* InvalidJPEG for a section length of 2 or less, the stream having
\* delivered every byte asked for
C4_Witness ==
  /\ pc = "ret"
  /\ result = EXIF_PARSE_INVALID_JPEG
  /\ soi
  /\ shortLen
  /\ ~ended

\* C5: a call on a Record that an earlier call has filled, for an input
\* that supplies no APP1 segment, returns with the Record as a fresh one
\* would be: the flags has_app1, has_xmp and not_enough_memory clear, every
\* EXIF string and number and every XMP slot at its default, and no field
\* holding an arena position assigned during an earlier call.
C5_ReuseStartsCleared ==
  (pc = "ret" /\ calls >= 2 /\ seg.kind = "none") =>
    /\ ~ei.has_app1
    /\ ~ei.has_xmp
    /\ ~ei.not_enough_memory
    /\ ei.str = FreshRecord.str
    /\ ei.num = FreshRecord.num
    /\ ei.xmp = FreshRecord.xmp
    /\ \A f \in StrFields : ei.str[f].k = "arena" => ei.str[f].gen = ei.call
    /\ \A f \in XmpSlots : ei.xmp[f].k = "arena" => ei.xmp[f].gen = ei.call

\* C6: after the parse of a JPEG input without an APP1 segment, latitude,
\* longitude, altitude, roll, pitch, yaw and the three speeds hold DBL_MAX,
\* every other numeric field is zero, and every string field is an empty
\* string, none a null pointer.
C6_DefaultsWithoutMetadata ==
  (pc = "ret" /\ soi /\ seg.kind = "none") =>
    /\ \A f \in NumFields :
         ei.num[f] = IF f \in { "GeoLocation.Latitude", "GeoLocation.Longitude",
                                "GeoLocation.Altitude", "GeoLocation.RollDegree",
                                "GeoLocation.PitchDegree", "GeoLocation.YawDegree",
                                "GeoLocation.SpeedX", "GeoLocation.SpeedY",
                                "GeoLocation.SpeedZ" }
                       THEN DBL_MAX ELSE 0
    /\ \A f \in StrFields : PtrValid(ei.str[f]) /\ PtrStr(ei, ei.str[f]) = <<>>
    /\ \A f \in XmpSlots : PtrValid(ei.xmp[f]) /\ PtrStr(ei, ei.xmp[f]) = <<>>

\* C7: when the top-level parse has returned, every string or list field
\* of the Record is at its empty default or points inside the Record's
\* arena strings[0 .. ArenaSize - 1].
C7_StringsInArena ==
  pc = "ret" =>
    /\ \A f \in StrFields :
         \/ ei.str[f].k \in {"null", "lit"}
         \/ ei.str[f].k = "arena" /\ ei.str[f].off >= 0 /\ ei.str[f].off < ArenaSize
    /\ \A f \in XmpSlots :
         \/ ei.xmp[f].k \in {"null", "lit"}
         \/ ei.xmp[f].k = "arena" /\ ei.xmp[f].off >= 0 /\ ei.xmp[f].off < ArenaSize

C9_ExifArenaExhaustion ==
  (seg.kind = "exif") => (ei.next <= ArenaSize /\ ~seg.oobWrite)

\* C10: an XMP decode that has run the extractor writes no byte at or
\* beyond the end of the arena, and when it has set not_enough_memory it
\* returns CorruptData.
C10_XmpArenaExhaustion ==
  (seg.kind = "xmp" /\ seg.handled > 0) =>
    /\ ~seg.oobWrite
    /\ (ei.not_enough_memory => (pc # "crash" /\ seg.xmpret = EXIF_PARSE_CORRUPT_DATA))

\* the six fields the DJI MakerNote decode assigns
MakerNoteFields ==
  { "GeoLocation.SpeedX", "GeoLocation.SpeedY", "GeoLocation.SpeedZ",
    "GeoLocation.PitchDegree", "GeoLocation.YawDegree", "GeoLocation.RollDegree" }

\* C11: after the decode of a segment whose well-formed MakerNote directory
\* (count within the entry's length, first entry tag 1 = "DJI", tags 3, 4,
\* 5, 9, 10, 11 floats) was met with Make "DJI", speed X/Y/Z and pitch, yaw,
\* roll are set; met with another Make, the six fields are at DBL_MAX.
C11_DjiMakerNote ==
  /\ (seg.mnote = "dji" /\ pc # "crash") =>
        \A f \in MakerNoteFields : ei.num[f] # DBL_MAX
  /\ (seg.mnote = "other" /\ pc # "crash") =>
        \A f \in MakerNoteFields : ei.num[f] = DBL_MAX

\* the strings found by repeated scan-to-NUL from arena offset off, up to
\* the first empty one
RECURSIVE ArenaList(_, _)
ArenaList(e, off) ==
  IF off >= ArenaSize \/ ArenaStr(e, off) = <<>> THEN <<>>
  ELSE <<ArenaStr(e, off)>> \o ArenaList(e, off + Len(ArenaStr(e, off)) + 1)

\* the strings a slot refers to
SlotList(e, slot) ==
  IF e.xmp[slot].k = "arena" THEN ArenaList(e, e.xmp[slot].off) ELSE <<>>

\* C12: after the XMP packet holding a dc:subject bag of three rdf:li
\* items is decoded, the dc:subject slot refers to exactly the three item
\* texts in document order, each NUL-terminated, followed by an empty string.
C12_SubjectBag ==
  (seg.kind = "xmp" /\ seg.p = Input.Subject /\ seg.xmpret = EXIF_PARSE_SUCCESS
     /\ pc # "crash")
    => /\ ei.xmp["dc.subject"].k = "arena"
       /\ SlotList(ei, "dc.subject") = SubjectItems

C12_Witness ==
  /\ seg.kind = "xmp" /\ seg.p = Input.Subject /\ seg.xmpret = EXIF_PARSE_SUCCESS
  /\ pc # "crash"
  /\ SlotList(ei, "dc.subject") = SubjectItems

\* the same on a Record that was never parsed into before
C12_FirstParse ==
  (calls = 1 /\ segs = 1 /\ seg.kind = "xmp" /\ seg.p = Input.Subject
     /\ seg.xmpret = EXIF_PARSE_SUCCESS /\ pc # "crash")
    => SlotList(ei, "dc.subject") = SubjectItems
\* C13: after an XMP packet with a City below LocationCreated and another
\* City below LocationShown is decoded, the LocationCreated.City slot
\* refers to the first text and the LocationShown.City slot to the second,
\* whichever of the two elements comes first in the document.
C13_CityByParent ==
  (seg.kind = "xmp" /\ seg.p \in {Input.CreatedShown, Input.ShownCreated}
     /\ seg.xmpret = EXIF_PARSE_SUCCESS /\ pc # "crash")
    => /\ PtrStr(ei, ei.xmp["Iptc4xmpExt.LocationCreated.City"]) = <<65>>
       /\ PtrStr(ei, ei.xmp["Iptc4xmpExt.LocationShown.City"]) = <<66>>

C13_Witness ==
  /\ seg.kind = "xmp" /\ seg.p = Input.ShownCreated
  /\ seg.xmpret = EXIF_PARSE_SUCCESS /\ pc # "crash"
  /\ PtrStr(ei, ei.xmp["Iptc4xmpExt.LocationCreated.City"]) = <<65>>
  /\ PtrStr(ei, ei.xmp["Iptc4xmpExt.LocationShown.City"]) = <<66>>
\* the XMP extractor ran on the last segment and returned
XmpFinished ==
  /\ seg.kind = "xmp" /\ seg.p.xml # <<>>
  /\ seg.xmpret \in {EXIF_PARSE_SUCCESS, EXIF_PARSE_CORRUPT_DATA}
  /\ pc # "crash"

\* C14: when the XMP extractor has finished (complete XML, XML rejected
\* by the tokenizer, or arena exhausted), every rule's slot is non-null,
\* and a slot whose capture never started in this call of the parser
\* refers to the empty-list literal.
C14_SlotsAfterXmp ==
  XmpFinished
    => \A f \in XmpSlots :
         /\ ei.xmp[f].k # "null"
         /\ f \notin seg.started => ei.xmp[f] = LitPtr

\* the first half alone: no slot is null once the extractor has finished
C14_SlotsNonNull ==
  XmpFinished => \A f \in XmpSlots : ei.xmp[f].k # "null"

C14_Witness ==
  /\ XmpFinished
  /\ seg.xmpret = EXIF_PARSE_CORRUPT_DATA
  /\ \E f \in XmpSlots : f \notin seg.started /\ ei.xmp[f] = LitPtr
\* what is wrong with the header of a payload: the first of the tests of
\* exif_parse_from_segment it fails, "ok" when it passes them all
HeaderOf(p) ==
  CASE Len(p.bytes) < 6 \/ SubSeq(p.bytes, 1, 6) # ExifPreamble -> "preamble"
    [] OTHER ->
       CASE Len(p.bytes) < 14 -> "short"
         [] OTHER ->
            CASE SubSeq(p.bytes, 7, 8) \notin {<<73, 73>>, <<77, 77>>} -> "byteorder"
              [] OTHER ->
                 IF SubSeq(p.bytes, 9, 10)
                      = (IF p.bytes[7] = 73 THEN <<42, 0>> ELSE <<0, 42>>)
                   THEN "ok" ELSE "magic"

\* C15: the EXIF segment decode returns AbsentData when the payload does
\* not start with "Exif\0\0", UnknownByteAlign when the byte-order marker
\* is neither "II" nor "MM", CorruptData when the magic is not 0x002A, and
\* decodes no directory entry in any of these cases.
C15_HeaderMismatch ==
  seg.kind # "none" =>
    /\ HeaderOf(seg.p) = "preamble"
         => seg.ret = EXIF_PARSE_ABSENT_DATA /\ seg.visited = 0
    /\ HeaderOf(seg.p) = "byteorder"
         => seg.ret = EXIF_PARSE_UNKNOWN_BYTEALIGN /\ seg.visited = 0
    /\ HeaderOf(seg.p) = "magic"
         => seg.ret = EXIF_PARSE_CORRUPT_DATA /\ seg.visited = 0

\* C15 as stated: any of the three mismatches gives UnknownByteAlign or
\* CorruptData.
C15_Original ==
  (seg.kind # "none" /\ HeaderOf(seg.p) \in {"preamble", "byteorder", "magic"})
    => /\ seg.ret \in {EXIF_PARSE_UNKNOWN_BYTEALIGN, EXIF_PARSE_CORRUPT_DATA}
       /\ seg.visited = 0

C15_Witness ==
  /\ seg.p = Input.BadMagic
  /\ seg.ret = EXIF_PARSE_CORRUPT_DATA
  /\ seg.visited = 0
\* the coordinates of SegGpsFix, in units of 1/3600
GpsFix ==
  [ Latitude |-> 10 * DblUnit + (30 * DblUnit) \div 60,
    Longitude |-> 20 * DblUnit + (15 * DblUnit) \div 60 + (36 * DblUnit) \div 3600,
    Altitude |-> 100 * DblUnit ]

C17_DescriptionRoundTrip ==
  \A desc \in Extra.ImageDescription :
    (seg.p = SegDescription(desc) /\ ~seg.oobWrite)
      => /\ seg.ret = EXIF_PARSE_SUCCESS
         /\ pc = "ret" => result = EXIF_PARSE_SUCCESS
         /\ PtrStr(ei, ei.str["DateTimeOriginal"]) = Extra.DateTimeOriginal
         /\ PtrStr(ei, ei.str["ImageDescription"]) = desc

\* what does hold: the decode succeeds, the date comes back, and so does
\* a description that is not 3 characters long
C17_DescriptionOnly ==
  \A desc \in Extra.ImageDescription :
    (seg.p = SegDescription(desc) /\ ~seg.oobWrite)
      => /\ seg.ret = EXIF_PARSE_SUCCESS
         /\ pc = "ret" => result = EXIF_PARSE_SUCCESS
         /\ PtrStr(ei, ei.str["DateTimeOriginal"]) = Extra.DateTimeOriginal
         /\ PtrStr(ei, ei.str["ImageDescription"])
              = (IF Len(desc) = 3 THEN <<>> ELSE desc)

C17_Witness ==
  /\ seg.p = SegDescription(<<97, 98, 99, 100>>) /\ ~seg.oobWrite
  /\ PtrStr(ei, ei.str["ImageDescription"]) = <<97, 98, 99, 100>>

Ifd0Of(p) ==
  LET intel == p.bytes[7] = 73
      offs == 6 + parse32(SubSeq(p.bytes, 11, 14), intel)
      count == parse16(SubSeq(p.bytes, offs + 1, offs + 2), intel)
  IN  [offs |-> offs, count |-> count, end |-> offs + 2 + 12 * count]

\* the last segment decode was given a sound header and an IFD0 whose
\* count lies in the buffer
HasIfd0 ==
  /\ seg.kind = "exif"
  /\ pc # "crash"
  /\ HeaderOf(seg.p) = "ok"
  /\ parse32(SubSeq(seg.p.bytes, 11, 14), seg.p.bytes[7] = 73) = 8
  /\ Len(seg.p.bytes) >= 16

AltitudeDecoded(off) ==
  /\ calls = 1
  /\ segs = 1
  /\ seg.kind = "exif"
  /\ seg.p = SegAltitude(off)
  /\ seg.ret = EXIF_PARSE_SUCCESS
  /\ seg.visited = 2

\* C20: decoding a rational entry reads bytes only at positions inside the
\* segment buffer, whatever its offset field holds, and an entry whose
\* 8-byte value does not lie inside the buffer leaves its field at the
\* default.
C20_RationalInBuffer ==
  \A off \in AltitudeOffsets :
    AltitudeDecoded(off) =>
      /\ ~seg.oobRead
      /\ off # W32(FALSE, 44) => ei.num["GeoLocation.Altitude"] = DBL_MAX

\* a rational whose 8 bytes lie inside the buffer is decoded from them and
\* nothing outside the buffer is read
C20_RationalInside ==
  AltitudeDecoded(W32(FALSE, 44)) =>
    ~seg.oobRead /\ ei.num["GeoLocation.Altitude"] = 100 * DblUnit

C20_InsideReached ==
  AltitudeDecoded(W32(FALSE, 44)) /\ ei.num["GeoLocation.Altitude"] = 100 * DblUnit

\* a rational whose offset is after the buffer was fetched
C20_Reached ==
  /\ AltitudeDecoded(W32(FALSE, 4096))
  /\ seg.oobRead
  /\ ei.num["GeoLocation.Altitude"] # DBL_MAX
\* C21: for every offset stored in the Exif or GPS pointer entry of IFD0,
\* including those for which header start + offset + 4 wraps around modulo
\* 2^32, the entry count of the sub-IFD is read only inside the segment
\* buffer; otherwise the sub-IFD is treated as missing or CorruptData is
\* returned.
C21_SubIfdCountInBuffer ==
  (seg.kind = "exif" /\ seg.p \in {Input.WrapGps, Input.WrapExif, Input.FarGps})
    => ~seg.oobRead

\* a sub-IFD offset after the buffer that does not wrap is treated as a
\* missing sub-IFD
C21_FarIsMissing ==
  (seg.kind = "exif" /\ seg.p = Input.FarGps)
    => ~seg.oobRead /\ seg.ret = EXIF_PARSE_SUCCESS /\ seg.visited = 1

C21_Reached ==
  /\ seg.kind = "exif" /\ seg.p = Input.WrapGps
  /\ seg.oobRead /\ seg.ret = EXIF_PARSE_SUCCESS

C21_FarReached == seg.kind = "exif" /\ seg.p = Input.FarGps /\ seg.visited = 1
\* C22: an out-of-line string entry whose span exceeds the buffer decodes
\* to the empty string without a read outside the buffer, and its field
\* still reads as empty after the later string entries of the same parse
\* have been decoded.
C22_SpanRejected ==
  (calls = 1 /\ segs = 1 /\ seg.kind = "exif"
     /\ seg.p \in {Input.BadSpan, Input.WrapSpan})
    => /\ ~seg.oobRead
       /\ PtrStr(ei, ei.str["Software"]) = <<>>

\* what does hold for a span that exceeds the buffer without wrapping:
\* nothing outside the buffer is read and the later string is decoded
C22_SpanNotRead ==
  (calls = 1 /\ segs = 1 /\ seg.kind = "exif" /\ seg.p = Input.BadSpan)
    => /\ ~seg.oobRead
       /\ seg.ret = EXIF_PARSE_SUCCESS
       /\ PtrStr(ei, ei.str["Copyright"]) = <<72, 105>>

C22_Reached ==
  /\ calls = 1 /\ segs = 1 /\ seg.kind = "exif" /\ seg.p = Input.BadSpan
  /\ PtrStr(ei, ei.str["Software"]) = <<72, 105>>
  /\ ei.str["Software"] = ei.str["Copyright"]

C22_WrapReached ==
  /\ calls = 1 /\ segs = 1 /\ seg.kind = "exif" /\ seg.p = Input.WrapSpan
  /\ seg.oobRead
\* C23: a directory entry whose format code is not one accepted for its
\* tag changes no Record field, and decoding proceeds with the next entry;
\* this holds for every recognised tag, shutter speed included.
C23_WrongFormatNoChange ==
  (calls = 1 /\ segs = 1 /\ seg.kind = "exif" /\ seg.p = Input.BadFormat)
    => /\ seg.visited = 3
       /\ ei.num["Orientation"] = 1
       /\ \A f \in (ClearedZeroFields \cup ClearedMaxFields) \ {"Orientation"} :
            ei.num[f] = exif_clear(ei).num[f]

\* what does hold: every entry is visited, the entry with an accepted
\* format is decoded, and the fields other than ShutterSpeedValue keep
\* their defaults
C23_OthersNoChange ==
  (calls = 1 /\ segs = 1 /\ seg.kind = "exif" /\ seg.p = Input.BadFormat)
    => /\ seg.visited = 3
       /\ ei.num["Orientation"] = 1
       /\ \A f \in (ClearedZeroFields \cup ClearedMaxFields)
                      \ {"Orientation", "ShutterSpeedValue"} :
            ei.num[f] = exif_clear(ei).num[f]

C23_Reached ==
  /\ calls = 1 /\ segs = 1 /\ seg.kind = "exif" /\ seg.p = Input.BadFormat
  /\ seg.visited = 3
  /\ ei.num["ShutterSpeedValue"] = DblUnit
  /\ ei.num["BrightnessValue"] = 0
\* C24: after a MakerNote entry has been handled, whether the vendor check
\* failed, the sub-directory was rejected, or entries of it were walked,
\* the outer IFD loop decodes as its next entry the 12-byte entry that
\* follows the MakerNote entry, and the outer entries visited are as many
\* as IFD0 declares, each once and in order.
C24_CursorRestored ==
  (seg.kind = "exif" /\ pc # "crash"
     /\ seg.p \in {Input.LgThen, Input.DjiThen, Input.DjiWalk})
    => /\ seg.ret = EXIF_PARSE_SUCCESS
       /\ Len(seg.path) >= 3
       /\ seg.path[1] = 16 /\ seg.path[2] = 28
       /\ seg.path[Len(seg.path)] = 40
       /\ \A i \in 3..(Len(seg.path) - 1) : seg.path[i] \notin {16, 28, 40}
       /\ seg.p # Input.DjiWalk => Len(seg.path) = 3
       /\ ei.num["Orientation"] = 1

\* entries of the MakerNote directory were walked and the outer walk went
\* on with the entry after the MakerNote entry
C24_Witness ==
  /\ seg.kind = "exif" /\ pc # "crash" /\ seg.p = Input.DjiWalk
  /\ Len(seg.path) > 3
  /\ seg.path[3] = 58
  /\ seg.path[Len(seg.path)] = 40
  /\ ei.num["Orientation"] = 1

C24_RejectedReached ==
  /\ seg.kind = "exif" /\ seg.p = Input.DjiThen /\ seg.path = <<16, 28, 40>>

C24_VendorReached ==
  /\ seg.kind = "exif" /\ seg.p = Input.LgThen /\ seg.path = <<16, 28, 40>>
\* C25: while a capture is active, whitespace is removed only from the
\* leading run at the start of the captured value; whitespace delivered in
\* a content event after the first non-whitespace character of the value
\* is stored unchanged.
C25_InnerSpaceKept ==
  (calls = 1 /\ segs = 1 /\ seg.kind = "xmp" /\ seg.p = Input.Spaced
     /\ seg.xmpret = EXIF_PARSE_SUCCESS /\ pc # "crash")
    => PtrStr(ei, ei.xmp["CreatorTool"]) = <<65, 32, 98>>

\* what does hold: the leading whitespace is removed and the other bytes
\* are stored in order
C25_LeadingSpaceRemoved ==
  (calls = 1 /\ segs = 1 /\ seg.kind = "xmp" /\ seg.p = Input.Spaced
     /\ seg.xmpret = EXIF_PARSE_SUCCESS /\ pc # "crash")
    => /\ PtrStr(ei, ei.xmp["CreatorTool"]) # <<>>
       /\ Head(PtrStr(ei, ei.xmp["CreatorTool"])) = 65
       /\ PtrStr(ei, ei.xmp["CreatorTool"])[Len(PtrStr(ei, ei.xmp["CreatorTool"]))] = 98

C25_Reached ==
  /\ calls = 1 /\ segs = 1 /\ seg.kind = "xmp" /\ seg.p = Input.Spaced
  /\ seg.xmpret = EXIF_PARSE_SUCCESS /\ pc # "crash"
  /\ PtrStr(ei, ei.xmp["CreatorTool"]) = <<65, 98>>
\* C26: when an append rule matches again after its slot already holds
\* data, the new value is added to the list of the slot: scanning to NUL
\* repeatedly from the slot start yields the earlier values followed by
\* the new value and ends at a double NUL.
C26_SecondCaptureAppended ==
  (calls = 1 /\ segs = 1 /\ seg.kind = "xmp" /\ seg.p = Input.TwoSubjects
     /\ seg.xmpret = EXIF_PARSE_SUCCESS /\ pc # "crash")
    => SlotList(ei, "dc.subject") = << <<97>>, <<98>> >>

\* what does hold: the slot keeps its start, the earlier value stays in
\* the list, and the new value is stored in the arena after it
C26_SecondCaptureStored ==
  (calls = 1 /\ segs = 1 /\ seg.kind = "xmp" /\ seg.p = Input.TwoSubjects
     /\ seg.xmpret = EXIF_PARSE_SUCCESS /\ pc # "crash")
    => /\ ei.xmp["dc.subject"].k = "arena"
       /\ Head(SlotList(ei, "dc.subject")) = <<97>>
       /\ \E off \in (ei.xmp["dc.subject"].off + 2)..(ArenaSize - 1) :
            ArenaStr(ei, off) = <<98>>

C26_Reached ==
  /\ calls = 1 /\ segs = 1 /\ seg.kind = "xmp" /\ seg.p = Input.TwoSubjects
  /\ seg.xmpret = EXIF_PARSE_SUCCESS /\ pc # "crash"
  /\ SlotList(ei, "dc.subject") = << <<97>> >>
  /\ ArenaStr(ei, ei.xmp["dc.subject"].off + 3) = <<98>>
\* C27: within one top-level parse call the altitude sign is flipped at
\* most once: an altitude decoded and negated from a first EXIF segment is
\* not negated again when a second EXIF segment with a GPS sub-IFD that
\* holds no altitude is decoded in the same call.
C27_OneFlipPerCall ==
  [][(/\ calls' = calls
      /\ segs = 1 /\ seg.kind = "exif" /\ seg.p = Input.GpsSouth
      /\ seg.ret = EXIF_PARSE_SUCCESS
      /\ ei.num["GeoLocation.Altitude"] = -GpsFix.Altitude
      /\ segs' = 2 /\ seg'.kind = "exif" /\ seg'.p = Input.Gps)
     => ei'.num["GeoLocation.Altitude"] = ei.num["GeoLocation.Altitude"]]_vars

\* what does hold: a second segment that decodes an altitude of its own
\* and the reference 1 leaves that altitude negated once
C27_OneFlipPerSegment ==
  (segs = 2 /\ seg.kind = "exif" /\ seg.p = Input.GpsSouth
     /\ seg.ret = EXIF_PARSE_SUCCESS)
    => ei.num["GeoLocation.Altitude"] = -GpsFix.Altitude

\* the second EXIF segment of a call was decoded with the reference 1 and
\* the altitude of the first segment in the Record, and the altitude is
\* positive
C27_Reached ==
  /\ segs = 2 /\ seg.kind = "exif" /\ seg.p = Input.Gps
  /\ seg.ret = EXIF_PARSE_SUCCESS
  /\ ei.num["GeoLocation.AltitudeRef"] = 1
  /\ ei.num["GeoLocation.Altitude"] = GpsFix.Altitude
\* C28: for XML text that the tokenizer rejects, or that ends before the
\* document is complete, the XMP decode returns CorruptData to the segment
\* scanner and no assertion of the extractor is violated.
C28_CorruptNoAssert ==
  (seg.kind = "xmp" /\ seg.p \in {Input.XmpSyntax, Input.XmpOpen})
    => /\ seg.xmpret = EXIF_PARSE_CORRUPT_DATA
       /\ pc # "crash"

\* what does hold: the result computed for such text is CorruptData, and a
\* build without assert() hands it to the scanner
C28_CorruptResult ==
  (seg.kind = "xmp" /\ seg.p \in {Input.XmpSyntax, Input.XmpOpen})
    => seg.xmpret = EXIF_PARSE_CORRUPT_DATA

C28_Reached ==
  /\ seg.kind = "xmp" /\ seg.p = Input.XmpOpen
  /\ seg.xmpret = EXIF_PARSE_CORRUPT_DATA /\ pc = "crash"

C28_ReturnReached ==
  /\ seg.kind = "xmp" /\ seg.p = Input.XmpOpen
  /\ seg.xmpret = EXIF_PARSE_CORRUPT_DATA /\ pc = "ret"
\* C29: decoding a directory entry with tag 0x02bc never hands a null
\* string to the XMP extractor or to a length computation: for every
\* format code of that entry the directory walk continues with the next
\* entry.
C29_EmbeddedXmpWalk ==
  (seg.kind = "exif" /\ seg.p \in {Input.EmbeddedXmp, Input.EmbeddedXmpAscii})
    => /\ pc # "crash"
       /\ seg.visited = 2
       /\ seg.ret = EXIF_PARSE_SUCCESS

\* what does hold: with a format other than 7 the entry is passed over and
\* the walk continues
C29_OtherFormatWalk ==
  (seg.kind = "exif" /\ seg.p = Input.EmbeddedXmpAscii)
    => /\ pc # "crash"
       /\ seg.visited = 2
       /\ seg.ret = EXIF_PARSE_SUCCESS
       /\ ei.num["Orientation"] = 1
       /\ ei.has_xmp

C29_Reached ==
  /\ seg.kind = "exif" /\ seg.p = Input.EmbeddedXmp
  /\ pc = "crash"

C29_OtherReached ==
  /\ seg.kind = "exif" /\ seg.p = Input.EmbeddedXmpAscii /\ seg.visited = 2
\* C30: decoding a SubjectArea entry stores at most 4 components in the
\* 4-element SubjectArea array of the Record and never writes outside it,
\* for every declared component count of the entry.
C30_SubjectAreaInArray ==
  (seg.kind = "exif" /\ seg.p \in {Input.SubjectArea4, Input.SubjectArea5})
    => ~seg.oobField

\* what does hold: a SubjectArea of 4 components fills the array and
\* nothing is stored outside it
C30_FourComponents ==
  (seg.kind = "exif" /\ seg.p = Input.SubjectArea4)
    => /\ ~seg.oobField
       /\ seg.ret = EXIF_PARSE_SUCCESS
       /\ ei.num["SubjectAreas"] = 4
       /\ \A i \in 0..3 : ei.num[SubjectAreaField(i)] = i + 1

C30_Reached ==
  /\ seg.kind = "exif" /\ seg.p = Input.SubjectArea5
  /\ seg.oobField
  /\ ei.num["SubjectAreas"] = 5

C30_FourReached ==
  /\ seg.kind = "exif" /\ seg.p = Input.SubjectArea4 /\ ei.num["SubjectAreas"] = 4
====
